---------------------------- MODULE Spec2Model ----------------------------
(***************************************************************************)
(* A model of the e-commerce chatbot of src/code_1.py: the chat() loop,    *)
(* its place_order and inquire_product dialogues, the helpers they call    *)
(* and the storage operations behind them.                                 *)
(*                                                                         *)
(* Text is modelled as a sequence of one-character strings, so that        *)
(* str.lower, str.strip, int(), "in", re.sub and re.match are computed     *)
(* character by character, as the interpreter computes them.               *)
(***************************************************************************)
EXTENDS Integers, Sequences, FiniteSets, TLC

(***************************************************************************)
(* Bounds of the model.                                                    *)
(***************************************************************************)
\* The number of rows the orders table may hold: chat() takes no further
\* order or inquiry once it holds that many.
MaxOrders == 1

(***************************************************************************)
(* Characters and strings.                                                 *)
(***************************************************************************)
UpperChars == <<"A","B","C","D","E","F","G","H","I","J","K","L","M",
                "N","O","P","Q","R","S","T","U","V","W","X","Y","Z">>

LowerChars == <<"a","b","c","d","e","f","g","h","i","j","k","l","m",
                "n","o","p","q","r","s","t","u","v","w","x","y","z">>

DigitChars == <<"0","1","2","3","4","5","6","7","8","9">>

Range(s) == { s[i] : i \in 1..Len(s) }

UpperSet == Range(UpperChars)

LowerSet == Range(LowerChars)

DigitSet == Range(DigitChars)

IsUpper(c) == c \in UpperSet

IsLowerCh(c) == c \in LowerSet

IsDigit(c) == c \in DigitSet

\* The whitespace of the model's alphabet is the blank.
IsSpace(c) == c = " "

\* \w of the re module: letters, digits and the underscore.
IsWordChar(c) == IsUpper(c) \/ IsLowerCh(c) \/ IsDigit(c) \/ c = "_"

\* Alphanumeric: what [\W_] does not match.
IsAlnum(c) == IsUpper(c) \/ IsLowerCh(c) \/ IsDigit(c)

\* The lowercase letter of each uppercase letter.
LowerOf == [c \in UpperSet |-> LowerChars[CHOOSE i \in 1..Len(UpperChars) : UpperChars[i] = c]]

LowerChar(c) == IF IsUpper(c) THEN LowerOf[c] ELSE c

\* str.lower()
Lower(s) == [i \in 1..Len(s) |-> LowerChar(s[i])]

Slice(s, i, j) == IF i > j THEN << >> ELSE SubSeq(s, i, j)

\* str.strip(): leading and trailing whitespace removed.
Strip(s) ==
    LET idx == { i \in 1..Len(s) : ~IsSpace(s[i]) }
    IN  IF idx = {} THEN << >>
        ELSE LET lo == CHOOSE i \in idx : \A j \in idx : i <= j
                 hi == CHOOSE i \in idx : \A j \in idx : i >= j
             IN  SubSeq(s, lo, hi)

\* p occurs in s at position i (1-based).
MatchAt(p, s, i) ==
    /\ i >= 1
    /\ i + Len(p) - 1 <= Len(s)
    /\ \A k \in 1..Len(p) : s[i + k - 1] = p[k]

\* Python's "p in s" for strings.
Contains(s, p) == \E i \in 1..(Len(s) + 1) : MatchAt(p, s, i)

\* str.startswith
StartsWith(s, p) == MatchAt(p, s, 1)

\* \b of the re module at the gap before position i (1..Len(s)+1).
WordBoundary(s, i) ==
    LET before == i > 1 /\ i - 1 <= Len(s) /\ IsWordChar(s[i - 1])
        after  == i >= 1 /\ i <= Len(s) /\ IsWordChar(s[i])
    IN  before # after

\* re.search(r'\bw\b', s, re.IGNORECASE) for a lowercase word w.
HasWord(s, w) ==
    \E i \in 1..(Len(s) + 1) :
        /\ MatchAt(w, Lower(s), i)
        /\ WordBoundary(s, i)
        /\ WordBoundary(s, i + Len(w))

\* The first element of a sequence that satisfies a test, by index.
MinOf(S) == CHOOSE x \in S : \A y \in S : x <= y


(***************************************************************************)
(* normalize_text                                                          *)
(***************************************************************************)
\* re.sub(r'[\W_]+', '', text): only letters and digits stay.
RECURSIVE StripNonAlnum(_)
StripNonAlnum(s) ==
    IF Len(s) = 0 THEN << >>
    ELSE (IF IsAlnum(Head(s)) THEN <<Head(s)>> ELSE << >>)
         \o StripNonAlnum(Tail(s))

\* The length of the run of s[1] that s begins with.
RECURSIVE RunLen(_)
RunLen(s) ==
    IF Len(s) <= 1 THEN Len(s)
    ELSE IF s[2] = s[1] THEN 1 + RunLen(Tail(s)) ELSE 1

\* re.sub(r'(.)\1{2,}', r'\1\1', text): the scan goes left to right and a
\* match takes the whole run (the quantifier is greedy).
RECURSIVE CollapseRuns(_)
CollapseRuns(s) ==
    IF Len(s) = 0 THEN << >>
    ELSE LET n == RunLen(s)
         IN  IF n >= 3
             THEN <<s[1], s[1]>> \o CollapseRuns(Slice(s, n + 1, Len(s)))
             ELSE <<s[1]>> \o CollapseRuns(Tail(s))

\* The two re.sub of normalize_text in the other order.
normalize_text_CollapsesFirst(text) == StripNonAlnum(CollapseRuns(Lower(text)))

normalize_text(text) == CollapseRuns(StripNonAlnum(Lower(text)))

(***************************************************************************)
(* int(), the e-mail pattern and the phone test                            *)
(***************************************************************************)
DigitVal(c) == (CHOOSE i \in 1..10 : DigitChars[i] = c) - 1

\* The value of a string of digits.  Python's integers are unbounded; the
\* model's are not, so a value of ten digits or more is held as 10^9, which
\* keeps its sign and its order against every stock quantity.
RECURSIVE DigitsVal(_)
DigitsVal(s) ==
    IF Len(s) = 0 THEN 0
    ELSE IF s[1] = "0" THEN DigitsVal(Tail(s))
    ELSE IF Len(s) > 9 THEN 1000000000
    ELSE IF Len(s) = 1 THEN DigitVal(s[1])
    ELSE 10 * DigitsVal(SubSeq(s, 1, Len(s) - 1)) + DigitVal(s[Len(s)])

\* int(text): surrounding whitespace is dropped, one sign is allowed, the
\* rest must be decimal digits (single underscores between digits are
\* accepted by Python and dropped).  ok = FALSE stands for ValueError.
ParseInt(text) ==
    LET t      == Strip(text)
        signed == Len(t) > 0 /\ t[1] \in {"+", "-"}
        body   == IF signed THEN Tail(t) ELSE t
        shape  == /\ Len(body) > 0
                  /\ \A i \in 1..Len(body) :
                        \/ IsDigit(body[i])
                        \/ /\ body[i] = "_"
                           /\ i > 1 /\ i < Len(body)
                           /\ IsDigit(body[i - 1]) /\ IsDigit(body[i + 1])
        digits == SelectSeq(body, IsDigit)
    IN  IF ~shape THEN [ok |-> FALSE, val |-> 0]
        ELSE [ok |-> TRUE,
              val |-> IF signed /\ t[1] = "-"
                      THEN 0 - DigitsVal(digits) ELSE DigitsVal(digits)]

\* re.match(r"^[^@]+@[^@]+\.[^@]+$", email)
EmailMatches(email) ==
    \E i \in 1..Len(email) : \E j \in 1..Len(email) :
        /\ email[i] = "@"
        /\ \A k \in 1..Len(email) : email[k] = "@" => k = i
        /\ i > 1
        /\ email[j] = "."
        /\ j > i + 1
        /\ j < Len(email)

\* phone and len(phone) == 13 and phone.startswith('+')
PhoneLen == 13

\* The test of get_phone_input on the length alone.
PhoneValid_LengthOnly(phone) ==
    /\ Len(phone) > 0
    /\ Len(phone) = PhoneLen

PhoneValid(phone) ==
    /\ Len(phone) > 0
    /\ Len(phone) = PhoneLen
    /\ StartsWith(phone, <<"+">>)

(***************************************************************************)
(* difflib.SequenceMatcher(None, a, b).ratio()                             *)
(***************************************************************************)
\* The length of the longest common run of a from i (up to ahi) and b from
\* j (up to bhi).
RECURSIVE CommonLen(_, _, _, _, _, _)
CommonLen(a, b, i, ahi, j, bhi) ==
    IF i > ahi \/ j > bhi \/ a[i] # b[j] THEN 0
    ELSE 1 + CommonLen(a, b, i + 1, ahi, j + 1, bhi)

\* find_longest_match(alo, ahi, blo, bhi) with inclusive 1-based limits: the
\* longest block, of those the one that starts earliest in a, and of those
\* the one that starts earliest in b.  size = 0 when nothing matches.
FindLongestMatch(a, b, alo, ahi, blo, bhi) ==
    LET pairs == (alo..ahi) \X (blo..bhi)
        len(p) == CommonLen(a, b, p[1], ahi, p[2], bhi)
        best  == IF pairs = {} THEN 0
                 ELSE CHOOSE k \in 0..(ahi - alo + 1) :
                        /\ \E p \in pairs : len(p) = k
                        /\ \A p \in pairs : len(p) <= k
    IN  IF best = 0 THEN [i |-> alo, j |-> blo, size |-> 0]
        ELSE LET hits == { p \in pairs : len(p) = best }
                 i0   == MinOf({ p[1] : p \in hits })
                 j0   == MinOf({ p[2] : p \in { q \in hits : q[1] = i0 } })
             IN  [i |-> i0, j |-> j0, size |-> best]

\* The total size of get_matching_blocks(): the longest block, then the
\* same to its left and to its right.
RECURSIVE MatchTotal(_, _, _, _, _, _)
MatchTotal(a, b, alo, ahi, blo, bhi) ==
    IF alo > ahi \/ blo > bhi THEN 0
    ELSE LET m == FindLongestMatch(a, b, alo, ahi, blo, bhi)
         IN  IF m.size = 0 THEN 0
             ELSE m.size
                  + MatchTotal(a, b, alo, m.i - 1, blo, m.j - 1)
                  + MatchTotal(a, b, m.i + m.size, ahi, m.j + m.size, bhi)

Matches(a, b) == MatchTotal(a, b, 1, Len(a), 1, Len(b))

\* ratio() with no case for two empty strings.
ratio_NoEmptyCase(a, b) ==
    [num |-> 2 * Matches(a, b), den |-> Len(a) + Len(b)]

\* ratio() as the fraction num/den: 2.0 * matches / length, and 1.0 when
\* both strings are empty.
ratio(a, b) ==
    IF Len(a) + Len(b) = 0 THEN [num |-> 1, den |-> 1]
    ELSE [num |-> 2 * Matches(a, b), den |-> Len(a) + Len(b)]

\* ratio() >= num/den, in integers: ratio() is 2.0 * matches / length, and
\* 1.0 when both strings are empty.
RatioAtLeast(a, b, num, den) ==
    IF Len(a) + Len(b) = 0 THEN num <= den
    ELSE 2 * Matches(a, b) * den >= num * (Len(a) + Len(b))

(***************************************************************************)
(* The literals of the program.                                            *)
(***************************************************************************)
W_exit == <<"e","x","i","t">>

W_suggest == <<"s","u","g","g","e","s","t">>

W_order == <<"o","r","d","e","r">>

W_buy == <<"b","u","y">>

W_purchase == <<"p","u","r","c","h","a","s","e">>

W_cancel_order == <<"c","a","n","c","e","l"," ","o","r","d","e","r">>

W_cancel_my_order == <<"c","a","n","c","e","l"," ","m","y"," ","o","r","d","e","r">>

W_status == <<"s","t","a","t","u","s">>

W_do_you_have == <<"d","o"," ","y","o","u"," ","h","a","v","e">>

W_i_want == <<"i"," ","w","a","n","t">>

W_show_me_your_products == <<"s","h","o","w"," ","m","e"," ","y","o","u","r"," ","p","r","o","d","u","c","t","s">>

W_list_your_products == <<"l","i","s","t"," ","y","o","u","r"," ","p","r","o","d","u","c","t","s">>

W_products == <<"p","r","o","d","u","c","t","s">>

W_show == <<"s","h","o","w">>

W_list == <<"l","i","s","t">>

W_add_it_to_the_cart == <<"a","d","d"," ","i","t"," ","t","o"," ","t","h","e"," ","c","a","r","t">>

W_find == <<"f","i","n","d">>

W_available == <<"a","v","a","i","l","a","b","l","e">>

W_search == <<"s","e","a","r","c","h">>

W_any == <<"a","n","y">>

W_all == <<"a","l","l">>

W_the == <<"t","h","e">>

W_visa == <<"v","i","s","a">>

W_mastercard == <<"m","a","s","t","e","r","c","a","r","d">>

W_cash == <<"c","a","s","h">>

\* SYNONYMS_YES and SYNONYMS_NO
SYNONYMS_YES ==
    { <<"y","e","s">>,
      <<"y">>,
      <<"o","k">>,
      <<"o","k","a","y">>,
      <<"s","u","r","e">>,
      <<"c","h","o","o","s","e"," ","i","t">>,
      <<"c","h","o","o","s","e","i","t">>,
      <<"y","e","a","h">>,
      <<"y","e","p">>,
      <<"a","c","c","e","p","t">> }

SYNONYMS_NO ==
    { <<"n","o">>,
      <<"n">>,
      <<"n","a","h">>,
      <<"n","o","p","e">>,
      <<"c","a","n","c","e","l">> }

\* The interrogatives of determine_intent, in the pattern's order.
Interrogatives ==
    << <<"h","o","w">>,
       <<"w","h","a","t">>,
       <<"w","h","e","r","e">>,
       <<"w","h","e","n">>,
       <<"w","h","y">>,
       <<"w","h","i","c","h">> >>

\* The payment methods chat() accepts.
PaymentMethods == { W_visa, W_mastercard, W_cash }

(***************************************************************************)
(* Storage: the products table and the outcome of one storage call.        *)
(***************************************************************************)
\* The rows of the products table, in storage order.  Hats has one colour,
\* one size and one style.  Tees has two of each: (Red, S, Polo) is in stock,
\* (Blue, L, Tank) is sold out, no other Tank is in stock, and the other
\* combinations have no row of their own.
Catalog ==
    <<
    [id |-> 1, name |-> <<"H","a","t">>, category |-> <<"H","a","t","s">>,
     color |-> <<"B","l","a","c","k">>, material |-> <<"W","o","o","l">>, style |-> <<"C","a","p">>,
     size |-> <<"M">>, price |-> [kind |-> "decimal", val |-> 20],
     quantity |-> 2],
    [id |-> 2, name |-> <<"T","e","e">>, category |-> <<"T","e","e","s">>,
     color |-> <<"R","e","d">>, material |-> <<"K","n","i","t">>, style |-> <<"P","o","l","o">>,
     size |-> <<"S">>, price |-> [kind |-> "decimal", val |-> 10],
     quantity |-> 1],
    [id |-> 3, name |-> <<"T","o","p">>, category |-> <<"T","e","e","s">>,
     color |-> <<"B","l","u","e">>, material |-> <<"K","n","i","t">>, style |-> <<"T","a","n","k">>,
     size |-> <<"L">>, price |-> [kind |-> "decimal", val |-> 15],
     quantity |-> 0]
    >>

\* What one call to a storage function meets: a working connection, no
\* connection (get_db_connection returns None), or a mysql Error raised by
\* a query.
DbOutcomes == {"ok", "noconn", "error"}

\* dict.get(key) is truthy / dict has the key.  Dicts are records: a product
\* row, {"result": ...} or {"error": ...}.
Has(d, key) == key \in DOMAIN d

ResultIs(d, text) == Has(d, "result") /\ d.result = text

\* The indices of a table's rows that satisfy a test, and the first of them.
FirstIndex(S) == MinOf(S)

\* SELECT DISTINCT over a column: the values in order of first appearance.
Distinct(vals) ==
    LET firsts == { i \in 1..Len(vals) : \A j \in 1..(i - 1) : vals[j] # vals[i] }
        Pick[n \in 0..Len(vals)] ==
            IF n = 0 THEN << >>
            ELSE IF n \in firsts THEN Append(Pick[n - 1], vals[n]) ELSE Pick[n - 1]
    IN  Pick[Len(vals)]

get_product_categories(table, db) ==
    IF db # "ok" THEN << >>
    ELSE Distinct([i \in 1..Len(table) |-> table[i].category])

get_distinct_values_for_category(table, column_name, category, db) ==
    IF db # "ok" THEN << >>
    ELSE LET InCat(p) == p.category = category
             rows == SelectSeq(table, InCat)
         IN  Distinct([i \in 1..Len(rows) |-> rows[i][column_name]])

\* fetchone() over the hits that are in stock only.
search_product_SkipsSoldOut(table, product_name, db) ==
    IF db = "noconn" THEN [error |-> "DB connection failed"]
    ELSE IF db = "error" THEN [error |-> "Error searching product"]
    ELSE LET Like(p) == /\ Contains(Lower(p.name), Lower(product_name))
                        /\ p.quantity > 0
             hits == SelectSeq(table, Like)
             norm_query == normalize_text(product_name)
             Canon(p) == /\ Contains(normalize_text(p.name), norm_query)
                         /\ p.quantity > 0
             fallback == SelectSeq(table, Canon)
         IN  IF Len(hits) > 0 THEN hits[1]
             ELSE IF Len(fallback) > 0 THEN fallback[1]
             ELSE [result |-> "Product not found"]

search_product(table, product_name, db) ==
    IF db = "noconn" THEN [error |-> "DB connection failed"]
    ELSE IF db = "error" THEN [error |-> "Error searching product"]
    ELSE LET Like(p) == Contains(Lower(p.name), Lower(product_name))
             hits == SelectSeq(table, Like)
             norm_query == normalize_text(product_name)
             Canon(p) == /\ Contains(normalize_text(p.name), norm_query)
                         /\ p.quantity > 0
             fallback == SelectSeq(table, Canon)
         IN  IF Len(hits) > 0
             THEN IF hits[1].quantity <= 0
                  THEN [result |-> "Product sold out"]
                  ELSE hits[1]
             ELSE IF Len(fallback) > 0 THEN fallback[1]
             ELSE [result |-> "Product not found"]

\* score(prod) of search_product_by_attributes
score(prod, color, size) ==
    (IF Lower(prod.color) = Lower(color) THEN 0 ELSE 1)
    + (IF Lower(prod.size) = Lower(size) THEN 0 ELSE 1)

\* candidates[0] after a sort that puts the last of the rows of least score
\* first.
BestCandidate_LastOfLeast(candidates, color, size) ==
    LET least == MinOf({ score(candidates[i], color, size) : i \in 1..Len(candidates) })
        tied == { i \in 1..Len(candidates) : score(candidates[i], color, size) = least }
        i0 == CHOOSE i \in tied : \A j \in tied : j <= i
    IN  candidates[i0]

\* candidates.sort(key=score)[0]: the sort is stable, so the first row with
\* the least score.
BestCandidate(candidates, color, size) ==
    LET least == MinOf({ score(candidates[i], color, size) : i \in 1..Len(candidates) })
        i0 == FirstIndex({ i \in 1..Len(candidates) :
                             score(candidates[i], color, size) = least })
    IN  candidates[i0]

\* search_product_by_attributes with the sold-out rows left among the
\* candidates of the fallback.
search_product_by_attributes_KeepsSoldOut(table, category, color, size, style, db) ==
    IF db = "noconn" THEN [error |-> "DB connection failed"]
    ELSE IF db = "error" THEN [error |-> "Error searching product"]
    ELSE LET Exact(p) == /\ p.category = category
                         /\ Lower(p.color) = Lower(color)
                         /\ Lower(p.size) = Lower(size)
                         /\ Lower(p.style) = Lower(style)
             exact == SelectSeq(table, Exact)
             Near(p) == /\ p.category = category
                        /\ Lower(p.style) = Lower(style)
             candidates == SelectSeq(table, Near)
         IN  IF Len(exact) > 0
             THEN IF exact[1].quantity <= 0
                  THEN [result |-> "Product sold out"]
                  ELSE exact[1]
             ELSE IF Len(candidates) = 0
                  THEN [result |-> "Product not found"]
                  ELSE BestCandidate(candidates, color, size)

search_product_by_attributes(table, category, color, size, style, db) ==
    IF db = "noconn" THEN [error |-> "DB connection failed"]
    ELSE IF db = "error" THEN [error |-> "Error searching product"]
    ELSE LET Exact(p) == /\ p.category = category
                         /\ Lower(p.color) = Lower(color)
                         /\ Lower(p.size) = Lower(size)
                         /\ Lower(p.style) = Lower(style)
             exact == SelectSeq(table, Exact)
             Near(p) == /\ p.category = category
                        /\ Lower(p.style) = Lower(style)
                        /\ p.quantity > 0
             candidates == SelectSeq(table, Near)
         IN  IF Len(exact) > 0
             THEN IF exact[1].quantity <= 0
                  THEN [result |-> "Product sold out"]
                  ELSE exact[1]
             ELSE IF Len(candidates) = 0
                  THEN [result |-> "Product not found"]
                  ELSE BestCandidate(candidates, color, size)

\* The rows of the category, as a sequence, or a dict.
suggest_alternatives_by_category(table, category, db) ==
    IF db = "noconn" THEN [error |-> "DB connection failed"]
    ELSE IF db = "error" THEN [error |-> "Error suggesting alternatives"]
    ELSE LET InCat(p) == p.category = category
             rows == SelectSeq(table, InCat)
         IN  IF Len(rows) > 0 THEN [rows |-> rows]
             ELSE [result |-> "No alternatives found"]

(***************************************************************************)
(* determine_intent and the inquiry's query                                *)
(***************************************************************************)
\* re.search(r'\border\b|\bbuy\b|\bpurchase\b', text, re.IGNORECASE)
HasOrderVerb(text) ==
    HasWord(text, W_order) \/ HasWord(text, W_buy) \/ HasWord(text, W_purchase)

\* re.search(r'\bfind\b|\bavailable\b|\bsearch\b', text, re.IGNORECASE)
HasSearchVerb(text) ==
    HasWord(text, W_find) \/ HasWord(text, W_available) \/ HasWord(text, W_search)

\* re.match(r'^(how|what|where|when|why|which)\b', text.strip(), re.IGNORECASE)
StartsWithInterrogative(text) ==
    LET t == Strip(text)
    IN  \E k \in 1..Len(Interrogatives) :
            /\ MatchAt(Interrogatives[k], Lower(t), 1)
            /\ WordBoundary(t, 1 + Len(Interrogatives[k]))

\* determine_intent with "add it to the cart" tested before the leading
\* interrogative.
determine_intent_CartFirst(user_input) ==
    LET lower_input == Lower(user_input)
    IN  IF Contains(lower_input, W_suggest) THEN "place_order"
        ELSE IF RatioAtLeast(normalize_text(user_input), normalize_text(W_order), 8, 10)
             THEN "place_order"
        ELSE IF \/ Contains(lower_input, W_cancel_order)
                \/ Contains(lower_input, W_cancel_my_order)
             THEN "cancel_order"
        ELSE IF Contains(lower_input, W_status) THEN "order_status"
        ELSE IF \/ Contains(lower_input, W_do_you_have)
                \/ (Contains(lower_input, W_i_want) /\ ~HasOrderVerb(lower_input))
             THEN "inquire_product"
        ELSE IF \/ Contains(lower_input, W_show_me_your_products)
                \/ Contains(lower_input, W_list_your_products)
                \/ /\ Contains(lower_input, W_products)
                   /\ (Contains(lower_input, W_show) \/ Contains(lower_input, W_list))
             THEN "list_products"
        ELSE IF Contains(lower_input, W_add_it_to_the_cart) THEN "add_to_cart"
        ELSE IF StartsWithInterrogative(user_input) THEN "general"
        ELSE IF HasOrderVerb(user_input) THEN "place_order"
        ELSE IF HasSearchVerb(user_input) THEN "search_product"
        ELSE "general"

\* determine_intent with the test for an order verb moved before the
\* cancellation phrases.
determine_intent_VerbsFirst(user_input) ==
    LET lower_input == Lower(user_input)
    IN  IF Contains(lower_input, W_suggest) THEN "place_order"
        ELSE IF RatioAtLeast(normalize_text(user_input), normalize_text(W_order), 8, 10)
             THEN "place_order"
        ELSE IF HasOrderVerb(user_input) THEN "place_order"
        ELSE IF \/ Contains(lower_input, W_cancel_order)
                \/ Contains(lower_input, W_cancel_my_order)
             THEN "cancel_order"
        ELSE IF Contains(lower_input, W_status) THEN "order_status"
        ELSE IF \/ Contains(lower_input, W_do_you_have)
                \/ (Contains(lower_input, W_i_want) /\ ~HasOrderVerb(lower_input))
             THEN "inquire_product"
        ELSE IF \/ Contains(lower_input, W_show_me_your_products)
                \/ Contains(lower_input, W_list_your_products)
                \/ /\ Contains(lower_input, W_products)
                   /\ (Contains(lower_input, W_show) \/ Contains(lower_input, W_list))
             THEN "list_products"
        ELSE IF StartsWithInterrogative(user_input) THEN "general"
        ELSE IF Contains(lower_input, W_add_it_to_the_cart) THEN "add_to_cart"
        ELSE IF HasSearchVerb(user_input) THEN "search_product"
        ELSE "general"

determine_intent(user_input) ==
    LET lower_input == Lower(user_input)
    IN  IF Contains(lower_input, W_suggest) THEN "place_order"
        ELSE IF RatioAtLeast(normalize_text(user_input), normalize_text(W_order), 8, 10)
             THEN "place_order"
        ELSE IF \/ Contains(lower_input, W_cancel_order)
                \/ Contains(lower_input, W_cancel_my_order)
             THEN "cancel_order"
        ELSE IF Contains(lower_input, W_status) THEN "order_status"
        ELSE IF \/ Contains(lower_input, W_do_you_have)
                \/ (Contains(lower_input, W_i_want) /\ ~HasOrderVerb(lower_input))
             THEN "inquire_product"
        ELSE IF \/ Contains(lower_input, W_show_me_your_products)
                \/ Contains(lower_input, W_list_your_products)
                \/ /\ Contains(lower_input, W_products)
                   /\ (Contains(lower_input, W_show) \/ Contains(lower_input, W_list))
             THEN "list_products"
        ELSE IF StartsWithInterrogative(user_input) THEN "general"
        ELSE IF Contains(lower_input, W_add_it_to_the_cart) THEN "add_to_cart"
        ELSE IF HasOrderVerb(user_input) THEN "place_order"
        ELSE IF HasSearchVerb(user_input) THEN "search_product"
        ELSE "general"

\* re.sub(r'(do you have|i want)', '', text, flags=re.IGNORECASE), scanning
\* from position i: at each position the first alternative that matches is
\* removed, otherwise the character is kept.
RECURSIVE SubPhrases(_, _)
SubPhrases(text, i) ==
    IF i > Len(text) THEN << >>
    ELSE IF MatchAt(W_do_you_have, Lower(text), i)
         THEN SubPhrases(text, i + Len(W_do_you_have))
    ELSE IF MatchAt(W_i_want, Lower(text), i)
         THEN SubPhrases(text, i + Len(W_i_want))
    ELSE <<text[i]>> \o SubPhrases(text, i + 1)

\* re.sub(r'\b(any|all|the)\b', '', text, flags=re.IGNORECASE)
WordAt(text, w, i) ==
    /\ WordBoundary(text, i)
    /\ MatchAt(w, Lower(text), i)
    /\ WordBoundary(text, i + Len(w))

RECURSIVE SubFillers(_, _)
SubFillers(text, i) ==
    IF i > Len(text) THEN << >>
    ELSE IF WordAt(text, W_any, i) THEN SubFillers(text, i + Len(W_any))
    ELSE IF WordAt(text, W_all, i) THEN SubFillers(text, i + Len(W_all))
    ELSE IF WordAt(text, W_the, i) THEN SubFillers(text, i + Len(W_the))
    ELSE <<text[i]>> \o SubFillers(text, i + 1)

\* inquiry_query of the inquire_product branch
InquiryQuery(user_input) ==
    Strip(SubFillers(Strip(SubPhrases(user_input, 1)), 1))

\* product_query of the search_product branch:
\* re.sub(r'\b(find|search|available)\b', '', text, flags=re.IGNORECASE).strip()
RECURSIVE SubSearchVerbs(_, _)
SubSearchVerbs(text, i) ==
    IF i > Len(text) THEN << >>
    ELSE IF WordAt(text, W_find, i) THEN SubSearchVerbs(text, i + Len(W_find))
    ELSE IF WordAt(text, W_search, i) THEN SubSearchVerbs(text, i + Len(W_search))
    ELSE IF WordAt(text, W_available, i)
         THEN SubSearchVerbs(text, i + Len(W_available))
    ELSE <<text[i]>> \o SubSearchVerbs(text, i + 1)

ProductQuery(user_input) == Strip(SubSearchVerbs(user_input, 1))

(***************************************************************************)
(* The prompts' helpers                                                    *)
(***************************************************************************)
\* The exit sentinel compared without strip().
IsExit_NoStrip(value) == Lower(value) = W_exit

\* get_input: the exit sentinel, value.strip().lower() == "exit"
IsExit(value) == Lower(Strip(value)) = W_exit

\* handle_single_option comparing the answer as typed, without lower().
handle_single_option_NoLower(option_list, user_input) ==
    IF Len(option_list) = 1
    THEN LET stripped == Strip(user_input)
         IN  IF stripped \in SYNONYMS_YES THEN [kind |-> "option", value |-> option_list[1]]
             ELSE IF stripped \in SYNONYMS_NO THEN [kind |-> "None"]
             ELSE [kind |-> "invalid"]
    ELSE [kind |-> "invalid"]

\* handle_single_option comparing the answer as typed, without strip().
handle_single_option_NoStrip(option_list, user_input) ==
    IF Len(option_list) = 1
    THEN LET lowered == Lower(user_input)
         IN  IF lowered \in SYNONYMS_YES THEN [kind |-> "option", value |-> option_list[1]]
             ELSE IF lowered \in SYNONYMS_NO THEN [kind |-> "None"]
             ELSE [kind |-> "invalid"]
    ELSE [kind |-> "invalid"]

\* handle_single_option: the option, None or "invalid".
handle_single_option(option_list, user_input) ==
    IF Len(option_list) = 1
    THEN LET lowered == Strip(Lower(user_input))
         IN  IF lowered \in SYNONYMS_YES THEN [kind |-> "option", value |-> option_list[1]]
             ELSE IF lowered \in SYNONYMS_NO THEN [kind |-> "None"]
             ELSE [kind |-> "invalid"]
    ELSE [kind |-> "invalid"]

\* prompt_for_attribute taking a negative synonym as a cancellation among
\* several options too.
prompt_for_attribute_NoCancels(options, user_input) ==
    IF Len(options) = 0 THEN [kind |-> "None"]
    ELSE LET lowered == Lower(Strip(user_input))
             hits == { k \in 1..Len(options) : Lower(options[k]) = lowered }
         IN  IF Len(options) = 1 /\ lowered \in SYNONYMS_YES
             THEN [kind |-> "option", value |-> options[1]]
             ELSE IF lowered \in SYNONYMS_NO THEN [kind |-> "None"]
             ELSE IF Len(options) = 1 \/ hits = {} THEN [kind |-> "again"]
             ELSE [kind |-> "option", value |-> options[FirstIndex(hits)]]

\* One pass of the loop of prompt_for_attribute on one line of input: the
\* option chosen, None (the order is cancelled) or "again" (the loop asks
\* again).
\* prompt_for_attribute taking an affirmative synonym for the first of
\* several options.
prompt_for_attribute_YesTakesFirst(options, user_input) ==
    IF Len(options) = 0 THEN [kind |-> "None"]
    ELSE IF Lower(Strip(user_input)) \in SYNONYMS_YES
    THEN [kind |-> "option", value |-> options[1]]
    ELSE IF Len(options) = 1
    THEN LET res == handle_single_option(options, user_input)
         IN  IF res.kind = "None" THEN [kind |-> "None"]
             ELSE [kind |-> "again"]
    ELSE LET lowered == Lower(Strip(user_input))
             hits == { k \in 1..Len(options) : Lower(options[k]) = lowered }
         IN  IF hits = {} THEN [kind |-> "again"]
             ELSE [kind |-> "option", value |-> options[FirstIndex(hits)]]

prompt_for_attribute(options, user_input) ==
    IF Len(options) = 0 THEN [kind |-> "None"]
    ELSE IF Len(options) = 1
    THEN LET res == handle_single_option(options, user_input)
         IN  IF res.kind = "None" THEN [kind |-> "None"]
             ELSE IF res.kind = "invalid" THEN [kind |-> "again"]
             ELSE [kind |-> "option", value |-> options[1]]
    ELSE LET lowered == Lower(Strip(user_input))
             hits == { k \in 1..Len(options) : Lower(options[k]) = lowered }
         IN  IF hits = {} THEN [kind |-> "again"]
             ELSE [kind |-> "option", value |-> options[FirstIndex(hits)]]

\* The category a line names: the first with c.lower() == line.strip().lower();
\* 0 when there is none.
CategoryIndex(available_categories, line) ==
    LET hits == { k \in 1..Len(available_categories) :
                    Lower(available_categories[k]) = Lower(Strip(line)) }
    IN  IF hits = {} THEN 0 ELSE FirstIndex(hits)

(***************************************************************************)
(* The lines a user types.                                                 *)
(***************************************************************************)
\* What is typed at the top-level prompt "You: ".
Utterances ==
    { <<"o","r","d","e","r">>,
      <<"i"," ","w","a","n","t"," ","t","o"," ","o","r","d","e","r"," ","a"," ","h","a","t">>,
      <<"d","o"," ","y","o","u"," ","h","a","v","e"," ","h","a","t">>,
      <<"d","o"," ","y","o","u"," ","h","a","v","e"," ","a","n","y"," ","t","o","p">>,
      <<"i"," ","w","a","n","t"," ","s","o","c","k">>,
      <<"d","o"," ","y","o","u"," ","h","a","v","e"," ","t","-","e","e">>,
      <<"c","a","n","c","e","l"," ","m","y"," ","o","r","d","e","r">>,
      <<"s","t","a","t","u","s">>,
      <<"l","i","s","t"," ","p","r","o","d","u","c","t","s">>,
      <<"w","h","a","t"," ","i","s"," ","t","h","i","s">>,
      <<"a","d","d"," ","i","t"," ","t","o"," ","t","h","e"," ","c","a","r","t">>,
      <<"f","i","n","d"," ","h","a","t">>,
      <<"c","a","n","c","e","l"," ","o","r","d","e","r"," ","a","n","d"," ","b","u","y">>,
      <<"b","u","y"," ","i","t"," ","t","h","e","n"," ","C","a","n","c","e","l"," ","O","r","d","e","r">>,
      <<"w","h","a","t"," ","t","o"," ","b","u","y",","," ","c","a","n","c","e","l"," ","o","r","d","e","r">>,
      <<"i"," ","w","a","n","t"," ","t","o"," ","b","u","y",","," ","s","t","a","t","u","s",","," ","c","a","n","c","e","l"," ","o","r","d","e","r">>,
      <<"s","u","g","g","e","s","t"," ","t","o"," ","b","u","y"," ","o","r"," ","c","a","n","c","e","l"," ","o","r","d","e","r">> }

\* Lines for "You: " that meet the conditions determine_intent tests one
\* by one and two by two.
RuleUtterances ==
    { <<"s","u","g","g","e","s","t">>,
      <<"c","a","n","c","e","l"," ","o","r","d","e","r">>,
      <<"d","o"," ","y","o","u"," ","h","a","v","e">>,
      <<"s","h","o","w"," ","p","r","o","d","u","c","t","s">>,
      <<"w","h","a","t">>,
      <<"b","u","y">>,
      <<"f","i","n","d">>,
      <<"c","a","n","c","e","l"," ","o","r","d","e","r"," ","s","u","g",
        "g","e","s","t">>,
      <<"s","t","a","t","u","s"," ","s","u","g","g","e","s","t">>,
      <<"d","o"," ","y","o","u"," ","h","a","v","e"," ","s","u","g","g",
        "e","s","t">>,
      <<"s","h","o","w"," ","p","r","o","d","u","c","t","s"," ","s","u",
        "g","g","e","s","t">>,
      <<"w","h","a","t"," ","s","u","g","g","e","s","t">>,
      <<"a","d","d"," ","i","t"," ","t","o"," ","t","h","e"," ","c","a",
        "r","t"," ","s","u","g","g","e","s","t">>,
      <<"b","u","y"," ","s","u","g","g","e","s","t">>,
      <<"f","i","n","d"," ","s","u","g","g","e","s","t">>,
      <<"s","t","a","t","u","s"," ","c","a","n","c","e","l"," ","o","r",
        "d","e","r">>,
      <<"d","o"," ","y","o","u"," ","h","a","v","e"," ","c","a","n","c",
        "e","l"," ","o","r","d","e","r">>,
      <<"s","h","o","w"," ","p","r","o","d","u","c","t","s"," ","c","a",
        "n","c","e","l"," ","o","r","d","e","r">>,
      <<"w","h","a","t"," ","c","a","n","c","e","l"," ","o","r","d","e",
        "r">>,
      <<"a","d","d"," ","i","t"," ","t","o"," ","t","h","e"," ","c","a",
        "r","t"," ","c","a","n","c","e","l"," ","o","r","d","e","r">>,
      <<"b","u","y"," ","c","a","n","c","e","l"," ","o","r","d","e",
        "r">>,
      <<"f","i","n","d"," ","c","a","n","c","e","l"," ","o","r","d","e",
        "r">>,
      <<"d","o"," ","y","o","u"," ","h","a","v","e"," ","s","t","a","t",
        "u","s">>,
      <<"s","h","o","w"," ","p","r","o","d","u","c","t","s"," ","s","t",
        "a","t","u","s">>,
      <<"w","h","a","t"," ","s","t","a","t","u","s">>,
      <<"a","d","d"," ","i","t"," ","t","o"," ","t","h","e"," ","c","a",
        "r","t"," ","s","t","a","t","u","s">>,
      <<"b","u","y"," ","s","t","a","t","u","s">>,
      <<"f","i","n","d"," ","s","t","a","t","u","s">>,
      <<"s","h","o","w"," ","p","r","o","d","u","c","t","s"," ","d","o",
        " ","y","o","u"," ","h","a","v","e">>,
      <<"w","h","a","t"," ","d","o"," ","y","o","u"," ","h","a","v",
        "e">>,
      <<"a","d","d"," ","i","t"," ","t","o"," ","t","h","e"," ","c","a",
        "r","t"," ","d","o"," ","y","o","u"," ","h","a","v","e">>,
      <<"b","u","y"," ","d","o"," ","y","o","u"," ","h","a","v","e">>,
      <<"f","i","n","d"," ","d","o"," ","y","o","u"," ","h","a","v",
        "e">>,
      <<"w","h","a","t"," ","s","h","o","w"," ","p","r","o","d","u","c",
        "t","s">>,
      <<"a","d","d"," ","i","t"," ","t","o"," ","t","h","e"," ","c","a",
        "r","t"," ","s","h","o","w"," ","p","r","o","d","u","c","t",
        "s">>,
      <<"b","u","y"," ","s","h","o","w"," ","p","r","o","d","u","c","t",
        "s">>,
      <<"f","i","n","d"," ","s","h","o","w"," ","p","r","o","d","u","c",
        "t","s">>,
      <<"w","h","a","t"," ","a","d","d"," ","i","t"," ","t","o"," ","t",
        "h","e"," ","c","a","r","t">>,
      <<"w","h","a","t"," ","b","u","y">>,
      <<"w","h","a","t"," ","f","i","n","d">>,
      <<"b","u","y"," ","a","d","d"," ","i","t"," ","t","o"," ","t","h",
        "e"," ","c","a","r","t">>,
      <<"f","i","n","d"," ","a","d","d"," ","i","t"," ","t","o"," ","t",
        "h","e"," ","c","a","r","t">>,
      <<"f","i","n","d"," ","b","u","y">>,
      <<"i"," ","w","a","n","t"," ","b","u","y">>,
      <<"i"," ","w","a","n","t"," ","f","i","n","d">>,
      <<"i"," ","w","a","n","t"," ","a","d","d"," ","i","t"," ","t","o",
        " ","t","h","e"," ","c","a","r","t">>,
      <<"i"," ","w","a","n","t"," ","p","u","r","c","h","a","s","e"," ",
        "s","t","a","t","u","s">>,
      <<"F","i","n","d"," ","S","T","A","T","U","S">>,
      <<"w","h","a","t","e","v","e","r"," ","b","u","y">>,
      <<"w","h","i","c","h"," ","p","r","o","d","u","c","t","s"," ","l",
        "i","s","t">>,
      <<"o","r","d","e","r","s">>,
      <<"o","d","e","r">>,
      <<"O","r","d","e","r","!","!">>,
      <<"o","r","d","e","r","i","n","g">>,
      <<"b","o","r","d","e","r">>,
      <<"w","h","a","t"," ","s","t","a","t","u","s"," ","c","a","n","c",
        "e","l"," ","o","r","d","e","r"," ","s","u","g","g","e","s","t",
        " ","d","o"," ","y","o","u"," ","h","a","v","e"," ","s","h","o",
        "w"," ","p","r","o","d","u","c","t","s"," ","a","d","d"," ","i",
        "t"," ","t","o"," ","t","h","e"," ","c","a","r","t"," ","b","u",
        "y"," ","f","i","n","d">>,
      <<"s","t","a","t","u","s"," ","d","o"," ","y","o","u"," ","h","a",
        "v","e"," ","s","h","o","w"," ","p","r","o","d","u","c","t","s",
        " ","a","d","d"," ","i","t"," ","t","o"," ","t","h","e"," ","c",
        "a","r","t"," ","b","u","y"," ","f","i","n","d">>,
      <<"s","h","o","w"," ","m","e"," ","y","o","u","r"," ","p","r","o",
        "d","u","c","t","s">>,
      <<"l","i","s","t"," ","y","o","u","r"," ","p","r","o","d","u","c",
        "t","s">>,
      <<"p","u","r","c","h","a","s","e">>,
      <<"a","v","a","i","l","a","b","l","e">>,
      <<"s","e","a","r","c","h">>,
      <<"m","y"," ","o","r","d","e","r"," ","p","l","e","a","s","e">>,
      <<"h","o","w">>,
      <<"h","e","l","l","o">>,
      <<"e","x","i","t">> }

Spoken == Utterances \cup RuleUtterances

\* What is typed at the prompts whose answer the program inspects.
Lines ==
    { <<"e","x","i","t">>,
      <<" ","E","x","i","t"," ">>,
      <<" ","O","K"," ">>,
      <<"y","e","s">>,
      <<"N","o","p","e">>,
      <<"c","a","n","c","e","l">>,
      <<"m","a","y","b","e">>,
      << >>,
      <<"h","a","t","s">>,
      <<" ","T","e","e","s"," ">>,
      <<"b","l","a","c","k">>,
      <<"r","e","d">>,
      <<"B","L","U","E">>,
      <<"s">>,
      <<" ","L">>,
      <<"p","o","l","o">>,
      <<"T","A","N","K">>,
      <<"0">>,
      <<"-","1">>,
      <<"1">>,
      <<" ","2"," ">>,
      <<"3">>,
      <<"c","a","s","h">>,
      <<"V","i","s","a">>,
      <<"a","@","b",".","c","o">>,
      <<"a","@","b">>,
      <<"+","2","0","1","1","1","1","1","1","1","1","1","1">>,
      <<"+","2","0","1","1","1","1","1","1","1","1","1","1"," ">>,
      <<"+","2","0","1","1","1","1","1","1","1","1","1">>,
      <<"0","2","0","1","1","1","1","1","1","1","1","1","1">> }

\* What is typed at the name prompt, which takes any text.
NameLines ==
    { <<"n","o">>,
      <<"e","x","i","t">> }

\* What is typed at the address and card prompts, which take any text.
FreeLines ==
    { <<"c","a","n","c","e","l">>,
      <<"E","X","I","T">> }

\* The lines get_input takes for the exit sentinel.
AllLines == Spoken \cup Lines \cup NameLines \cup FreeLines

ExitLines == { line \in AllLines : IsExit(line) }

(***************************************************************************)
(* The state of chat().                                                    *)
(***************************************************************************)
VARIABLES
    pc,                   \* the prompt chat() waits at, "exited" or "crashed"
    flow,                 \* the branch of chat() in progress
    products,             \* the products table
    orders,               \* the orders table; a row's id is its index
    available_categories, \* chat()'s local of that name
    options,              \* the options argument of prompt_for_attribute
    draft,                \* the other locals of the branch in progress
    response,             \* the last thing the chatbot printed
    calls,                \* place_order calls since the last top-level line
    reported,             \* the order id of the last "Order placed" message
    others                \* the chat() processes that are not the one stepping

vars == <<pc, flow, products, orders, available_categories, options, draft,
          response, calls, reported, others>>

\* A local that is not set yet.
Unset == [unset |-> TRUE]

EmptyDraft ==
    [category |-> << >>, color |-> << >>, size |-> << >>, style |-> << >>,
     result |-> Unset, quantity |-> 0, total_price |-> 0,
     customer_name |-> << >>, shipping_address |-> << >>, email |-> << >>,
     phone |-> << >>, order_id |-> 0]

\* The prompts of the order dialogue, the inquiry's "buy this?" prompt and
\* the order-id prompts of order_status and cancel_order.
AttributePrompts == {"color", "size", "style"}

InspectedPrompts ==
    {"category", "buy", "quantity", "price", "email", "phone", "payment",
     "status_id", "cancel_id"} \cup AttributePrompts

FreePrompts == {"name", "address", "card"}

Prompts == {"top"} \cup InspectedPrompts \cup FreePrompts

\* determine_intent of every utterance, computed once.
IntentTable == { [said |-> u, intent |-> determine_intent(u)] : u \in Spoken }

IntentOf == [u \in Spoken |-> (CHOOSE e \in IntentTable : e.said = u).intent]

Init ==
    /\ pc = "top"
    /\ others = << >>
    /\ flow = "none"
    /\ products = Catalog
    /\ orders = << >>
    /\ available_categories = << >>
    /\ options = << >>
    /\ draft = EmptyDraft
    /\ response = "welcome"
    /\ calls = 0
    /\ reported = 0

(***************************************************************************)
(* How a step of chat() ends.                                              *)
(***************************************************************************)
\* "continue", or the end of the loop body: back at "You: " with msg the
\* last thing printed.
BackToTop(msg) ==
    /\ pc' = "top"
    /\ flow' = "none"
    /\ available_categories' = << >>
    /\ options' = << >>
    /\ draft' = EmptyDraft
    /\ response' = msg

\* An exception nothing catches: the interpreter prints the traceback and
\* the process ends.
Crash ==
    /\ pc' = "crashed"
    /\ response' = "traceback"
    /\ UNCHANGED <<flow, available_categories, options, draft>>

\* The loop of a prompt asks again.
AskAgain(msg) ==
    /\ response' = msg
    /\ UNCHANGED <<pc, flow, available_categories, options, draft>>

\* "Sorry, no colors/sizes/styles available for this category."
NoOptionsMsg(attr) ==
    CASE attr = "color" -> "no_colors"
      [] attr = "size"  -> "no_sizes"
      [] attr = "style" -> "no_styles"

\* AskAttribute without the test for an empty list of values.
AskAttribute_NoEmptyCheck(attr, d, db) ==
    /\ pc' = attr
    /\ options' = get_distinct_values_for_category(products, attr, d.category, db)
    /\ draft' = d
    /\ response' = "ask_attribute"
    /\ UNCHANGED <<flow, available_categories>>

\* get_distinct_values_for_category(attr, category) and, unless it is empty,
\* prompt_for_attribute(attr, values), up to its first get_input.
AskAttribute(attr, d, db) ==
    LET values == get_distinct_values_for_category(products, attr, d.category, db)
    IN  IF Len(values) = 0
        THEN BackToTop(NoOptionsMsg(attr))
        ELSE /\ pc' = attr
             /\ options' = values
             /\ draft' = d
             /\ response' = "ask_attribute"
             /\ UNCHANGED <<flow, available_categories>>

\* The quantity prompt, with the product the dialogue goes on with.  The
\* locals category, color, size and style are not read after this point and
\* are not kept.
AskQuantity(d, msg) ==
    /\ pc' = "quantity"
    /\ options' = << >>
    /\ draft' = [EmptyDraft EXCEPT !.result = d.result]
    /\ response' = msg
    /\ UNCHANGED <<flow, available_categories>>

\* float(price) raises TypeError
FloatFails(price) == price.kind # "decimal"

\* format_product(product) raises: KeyError on a dict that is no product
\* row, TypeError on a price float() does not take.
FormatFails(product) == ~Has(product, "name") \/ FloatFails(product.price)

\* search_product_by_attributes and what both branches do with its result.
ResolveProduct(d, db, db2) ==
    LET existing_product ==
            search_product_by_attributes(products, d.category, d.color, d.size,
                                         d.style, db)
        alt_products == suggest_alternatives_by_category(products, d.category, db2)
    IN  IF \/ ResultIs(existing_product, "Product not found")
           \/ ResultIs(existing_product, "Product sold out")
        THEN IF ResultIs(alt_products, "No alternatives found")
             THEN BackToTop("no_alternatives")
             ELSE IF /\ Has(alt_products, "rows")
                     /\ \A i \in 1..Len(alt_products.rows) :
                            ~FormatFails(alt_products.rows[i])
                  THEN BackToTop("alternatives")
                  \* format_product(p) for p in a dict, or a row it fails on
                  ELSE Crash
        ELSE IF flow = "place"
        THEN IF Has(existing_product, "error")
             THEN BackToTop("search_error")
             ELSE IF FloatFails(existing_product.price)
                  THEN Crash
                  ELSE AskQuantity([d EXCEPT !.result = existing_product],
                                   "ask_quantity")
        \* the inquire_product branch has no test for "error"
        ELSE AskQuantity([d EXCEPT !.result = existing_product], "ask_quantity")

(***************************************************************************)
(* The orders table.                                                       *)
(***************************************************************************)
S_Processing == <<"P","r","o","c","e","s","s","i","n","g">>

S_Cancelled == <<"C","a","n","c","e","l","l","e","d">>

S_on_delivery == <<"o","n"," ","d","e","l","i","v","e","r","y">>

\* The row place_order inserts for order_details.
OrderRow(d, payment_info) ==
    [product_id |-> d.result.id, product_name |-> d.result.name,
     color |-> d.result.color, material |-> d.result.material,
     style |-> d.result.style, size |-> d.result.size,
     price |-> d.result.price, quantity |-> d.quantity,
     shipping_address |-> d.shipping_address,
     customer_name |-> d.customer_name, email |-> d.email, phone |-> d.phone,
     payment_info |-> payment_info, status |-> S_Processing]

\* The submission calling place_order a second time when the first call
\* fails.
Submit_Retries(d, payment_info, db) ==
    IF db = "ok"
    THEN /\ calls' = calls + 1
         /\ orders' = Append(orders, OrderRow(d, payment_info))
         /\ reported' = Len(orders) + 1
         /\ BackToTop("order_placed")
    ELSE /\ calls' = calls + 2
         /\ orders' = Append(orders, OrderRow(d, payment_info))
         /\ reported' = Len(orders) + 1
         /\ BackToTop("order_placed")

\* place_order refusing a quantity that, with the orders already created for
\* the product, exceeds its stock.
Submit_ChecksOrders(d, payment_info, db) ==
    LET ordered == { i \in 1..Len(orders) : orders[i].product_id = d.result.id }
        first == IF ordered = {} THEN 0 ELSE orders[MinOf(ordered)].quantity
    IN  /\ calls' = calls + 1
        /\ IF db = "ok" /\ first + d.quantity <= d.result.quantity
           THEN /\ orders' = Append(orders, OrderRow(d, payment_info))
                /\ reported' = Len(orders) + 1
                /\ BackToTop("order_placed")
           ELSE /\ UNCHANGED <<orders, reported>>
                /\ BackToTop("order_error")

\* place_order(order_details) and the message chat() prints for its result.
Submit(d, payment_info, db) ==
    /\ calls' = calls + 1
    /\ IF db = "ok"
       THEN /\ orders' = Append(orders, OrderRow(d, payment_info))
            /\ reported' = Len(orders) + 1
            /\ BackToTop("order_placed")
       ELSE /\ UNCHANGED <<orders, reported>>
            /\ BackToTop("order_error")

\* get_order_status(order_id)
get_order_status(table, order_id, db) ==
    IF db = "noconn" THEN [error |-> "DB connection failed"]
    ELSE IF db = "error" THEN [error |-> "Error retrieving order status"]
    ELSE IF order_id \in 1..Len(table) THEN table[order_id]
    ELSE [result |-> "Order not found"]

\* cancel_order comparing the status as stored, without lower().
cancel_order_CaseSensitive(table, order_id, db) ==
    IF db = "noconn" THEN [error |-> "DB connection failed"]
    ELSE IF db = "error" THEN [error |-> "Error cancelling order"]
    ELSE IF order_id \notin 1..Len(table) THEN [result |-> "Order not found"]
    ELSE IF table[order_id].status = S_on_delivery
         THEN [result |-> "Order is on delivery and cannot be cancelled"]
    ELSE [status |-> "Order cancelled"]

\* cancel_order(order_id): the dict it returns.
cancel_order(table, order_id, db) ==
    IF db = "noconn" THEN [error |-> "DB connection failed"]
    ELSE IF db = "error" THEN [error |-> "Error cancelling order"]
    ELSE IF order_id \notin 1..Len(table) THEN [result |-> "Order not found"]
    ELSE IF Lower(table[order_id].status) = S_on_delivery
         THEN [result |-> "Order is on delivery and cannot be cancelled"]
    ELSE [status |-> "Order cancelled"]

\* cancel_order(order_id): the orders table it leaves.
CancelledTable(table, order_id, db) ==
    IF Has(cancel_order(table, order_id, db), "status")
    THEN [table EXCEPT ![order_id].status = S_Cancelled]
    ELSE table

(***************************************************************************)
(* The steps of chat(): one line read by get_input and everything the      *)
(* program does with it, up to the next get_input.                         *)
(***************************************************************************)
\* get_input at any prompt: the exit sentinel ends the process, sys.exit(0).
Exit(line) ==
    /\ pc \in Prompts
    /\ UNCHANGED others
    /\ line \in ExitLines
    /\ pc' = "exited"
    /\ response' = "exiting"
    /\ UNCHANGED <<flow, products, orders, available_categories, options,
                   draft, calls, reported>>

\* The branches of chat() that need no further input.
TopListProducts(db) ==
    IF db = "noconn" THEN BackToTop("db_connection_error")
    ELSE IF db = "error" THEN BackToTop("error_retrieving_products")
    ELSE IF Len(products) = 0 THEN BackToTop("no_products")
    ELSE IF \E i \in 1..Len(products) : FormatFails(products[i]) THEN Crash
    ELSE BackToTop("product_list")

TopSearchProduct(line, db) ==
    LET result == search_product(products, ProductQuery(line), db)
    IN  IF Has(result, "error") THEN BackToTop("search_failed")
        ELSE IF ResultIs(result, "Product not found") THEN BackToTop("not_in_inventory")
        ELSE IF ResultIs(result, "Product sold out") THEN BackToTop("sold_out")
        ELSE IF FormatFails(result) THEN Crash
        ELSE BackToTop("found_product")

\* generate_response: no key, an answer, or a failure of the service.
TopGeneral(svc) ==
    CASE svc = "nokey" -> BackToTop("not_configured")
      [] svc = "ok"    -> BackToTop("generated")
      [] svc = "fail"  -> BackToTop("could_not_generate")

\* The place_order branch up to its category prompt.
TopPlaceOrder(db) ==
    LET cats == get_product_categories(products, db)
    IN  IF Len(cats) = 0
        THEN BackToTop("no_categories")
        ELSE /\ pc' = "category"
             /\ flow' = "place"
             /\ available_categories' = cats
             /\ response' = "ask_category"
             /\ UNCHANGED <<options, draft>>

\* The inquire_product branch up to its first prompt.
TopInquire(line, db, db2) ==
    LET result == search_product(products, InquiryQuery(line), db)
        cats == get_product_categories(products, db2)
    IN  IF Has(result, "error") THEN BackToTop("inventory_error")
        ELSE IF ResultIs(result, "Product not found")
        THEN /\ pc' = "category"
             /\ flow' = "inquire"
             /\ available_categories' = cats
             /\ response' = "ask_category"
             /\ UNCHANGED <<options, draft>>
        \* everything else is taken for a product row, "Product sold out" too
        ELSE IF FormatFails(result) THEN Crash
        ELSE /\ pc' = "buy"
             /\ flow' = "inquire"
             /\ draft' = [EmptyDraft EXCEPT !.result = result]
             /\ response' = "yes_we_have"
             /\ UNCHANGED <<available_categories, options>>

\* "You: ": the line is classified and its branch runs to its first prompt.
\* db and db2 are what the branch's first and second storage call meet.
Top(line, db, db2) ==
    /\ pc = "top"
    /\ UNCHANGED others
    /\ line \in Spoken
    /\ line \notin ExitLines
    /\ IntentOf[line] \in {"place_order", "inquire_product"} => Len(orders) < MaxOrders
    /\ calls' = 0
    /\ UNCHANGED <<products, orders, reported>>
    /\ LET intent == IntentOf[line]
       IN  CASE intent = "order_status" ->
                  /\ pc' = "status_id"
                  /\ flow' = "status"
                  /\ response' = "ask_order_id"
                  /\ UNCHANGED <<available_categories, options, draft>>
             [] intent = "cancel_order" ->
                  /\ pc' = "cancel_id"
                  /\ flow' = "cancel"
                  /\ response' = "ask_order_id"
                  /\ UNCHANGED <<available_categories, options, draft>>
             [] intent = "list_products" -> TopListProducts(db)
             [] intent = "inquire_product" -> TopInquire(line, db, db2)
             [] intent = "search_product" -> TopSearchProduct(line, db)
             [] intent = "add_to_cart" -> BackToTop("cart_unsupported")
             [] intent = "place_order" -> TopPlaceOrder(db)
             [] intent = "general" ->
                  \E svc \in {"nokey", "ok", "fail"} : TopGeneral(svc)

\* "Please enter your order ID to check its status: "
StatusId(line, db) ==
    /\ pc = "status_id"
    /\ UNCHANGED others
    /\ line \notin ExitLines
    /\ UNCHANGED <<products, orders, calls, reported>>
    /\ LET n == ParseInt(line)
       IN  IF ~n.ok THEN BackToTop("invalid_order_id")
           ELSE LET order == get_order_status(orders, n.val, db)
                IN  IF Has(order, "error") \/ ResultIs(order, "Order not found")
                    THEN BackToTop("order_not_found")
                    ELSE BackToTop("order_status")

\* "Please enter your order ID to cancel: "
CancelId(line, db) ==
    /\ pc = "cancel_id"
    /\ UNCHANGED others
    /\ line \notin ExitLines
    /\ UNCHANGED <<products, calls, reported>>
    /\ LET n == ParseInt(line)
       IN  IF ~n.ok
           THEN /\ BackToTop("invalid_order_id")
                /\ UNCHANGED orders
           ELSE LET cancel_result == cancel_order(orders, n.val, db)
                IN  /\ orders' = CancelledTable(orders, n.val, db)
                    /\ IF Has(cancel_result, "error")
                       THEN BackToTop("cancel_error")
                       ELSE IF Has(cancel_result, "result")
                       THEN BackToTop(cancel_result.result)
                       ELSE BackToTop("order_cancelled_ok")

\* The category prompt of either branch, then the colours of the category.
Category(line, db) ==
    /\ pc = "category"
    /\ UNCHANGED others
    /\ line \notin ExitLines
    /\ UNCHANGED <<products, orders, calls, reported>>
    /\ LET k == CategoryIndex(available_categories, line)
       IN  IF k = 0 THEN AskAgain("invalid_category")
           ELSE AskAttribute("color",
                             [draft EXCEPT !.category = available_categories[k]],
                             db)

\* prompt_for_attribute for the colour, the size or the style, and what the
\* branch does with the value it returns.  db is what the next storage call
\* meets, db2 what suggest_alternatives_by_category meets.
Attribute(line, db, db2) ==
    /\ pc \in AttributePrompts
    /\ UNCHANGED others
    /\ line \notin ExitLines
    /\ UNCHANGED <<products, orders, calls, reported>>
    /\ LET res == prompt_for_attribute(options, line)
       IN  CASE res.kind = "again" ->
                  AskAgain(IF Len(options) = 1 THEN "invalid_input" ELSE "invalid_option")
             [] res.kind = "None" -> BackToTop("chose_no_order_cancelled")
             [] res.kind = "option" ->
                  LET d == [draft EXCEPT ![pc] = res.value]
                  IN  CASE pc = "color" -> AskAttribute("size", d, db)
                        [] pc = "size"  -> AskAttribute("style", d, db)
                        [] pc = "style" -> ResolveProduct(d, db, db2)

\* "Would you like to buy this product? (yes/no): " of the inquiry
Buy(line) ==
    /\ pc = "buy"
    /\ UNCHANGED others
    /\ line \notin ExitLines
    /\ UNCHANGED <<products, orders, calls, reported>>
    /\ IF Lower(Strip(line)) \in SYNONYMS_YES
       THEN AskQuantity(draft, "ask_quantity")
       ELSE BackToTop("inquiry_cancelled")

\* float(price) * quantity, and 0.0 when float() raises TypeError or
\* ValueError.
TotalPrice(price, quantity) ==
    IF FloatFails(price) THEN 0 ELSE price.val * quantity

\* The price prompt, with the quantity accepted.
AskPrice(quantity) ==
    /\ pc' = "price"
    /\ draft' = [draft EXCEPT !.quantity = quantity,
                              !.total_price = TotalPrice(draft.result.price, quantity)]
    /\ response' = "ask_price"
    /\ UNCHANGED <<flow, available_categories, options>>

\* The stock the quantity is held against: available_stock of the
\* place_order branch, result.get("quantity", 0) of the inquire_product
\* branch.
AvailableStock(result) == IF Has(result, "quantity") THEN result.quantity ELSE 0

\* The stock test letting one unit more than the stock through.
ExceedsStock_OffByOne(quantity, result) == quantity > AvailableStock(result) + 1

\* The stock test of both branches.
ExceedsStock(quantity, result) == quantity > AvailableStock(result)

\* The quantity prompt with the inquire_product branch's handling of a
\* rejected entry in both branches.
Quantity_CancelsInBoth(line) ==
    /\ pc = "quantity"
    /\ UNCHANGED others
    /\ line \notin ExitLines
    /\ UNCHANGED <<products, orders, calls, reported>>
    /\ LET n == ParseInt(line)
       IN  IF ~n.ok THEN BackToTop("invalid_number_cancelled")
           ELSE IF ExceedsStock(n.val, draft.result)
           THEN BackToTop("stock_cancelled")
           ELSE IF ~Has(draft.result, "price") THEN Crash
           ELSE AskPrice(n.val)

\* "How many would you like to order? (enter a number): ".  The place_order
\* branch asks again on a line that is no number or exceeds the stock; the
\* inquire_product branch cancels on both.
Quantity(line) ==
    /\ pc = "quantity"
    /\ UNCHANGED others
    /\ line \notin ExitLines
    /\ UNCHANGED <<products, orders, calls, reported>>
    /\ LET n == ParseInt(line)
       IN  IF flow = "place"
           THEN IF ~n.ok THEN AskAgain("invalid_number")
                ELSE IF ExceedsStock(n.val, draft.result)
                THEN AskAgain("stock_exceeded")
                ELSE AskPrice(n.val)
           ELSE IF ~n.ok THEN BackToTop("invalid_number_cancelled")
                ELSE IF ExceedsStock(n.val, draft.result)
                THEN BackToTop("stock_cancelled")
                \* result["price"] of a dict that is no product row: KeyError
                ELSE IF ~Has(draft.result, "price") THEN Crash
                ELSE AskPrice(n.val)

\* The price prompt cancelling on a negative synonym only and asking again
\* on anything else, as the single-option prompts do.
Price_AsksAgain(line) ==
    /\ pc = "price"
    /\ UNCHANGED others
    /\ line \notin ExitLines
    /\ UNCHANGED <<products, orders, calls, reported>>
    /\ IF Lower(Strip(line)) \in SYNONYMS_YES
       THEN /\ pc' = "name"
            /\ response' = "ask_name"
            /\ UNCHANGED <<flow, available_categories, options, draft>>
       ELSE IF Lower(Strip(line)) \in SYNONYMS_NO
       THEN BackToTop("order_cancelled")
       ELSE AskAgain("invalid_input")

\* "... Do you accept this price? (yes/no): "
Price(line) ==
    /\ pc = "price"
    /\ UNCHANGED others
    /\ line \notin ExitLines
    /\ UNCHANGED <<products, orders, calls, reported>>
    /\ IF Lower(Strip(line)) \in SYNONYMS_YES
       THEN /\ pc' = "name"
            /\ response' = "ask_name"
            /\ UNCHANGED <<flow, available_categories, options, draft>>
       ELSE BackToTop("order_cancelled")

\* "Please enter your full name: "
Name(line) ==
    /\ pc = "name"
    /\ UNCHANGED others
    /\ line \notin ExitLines
    /\ pc' = "address"
    /\ draft' = [draft EXCEPT !.customer_name = line]
    /\ response' = "ask_address"
    /\ UNCHANGED <<flow, products, orders, available_categories, options,
                   calls, reported>>

\* "Please enter your address (street, city, state, zip): "
Address(line) ==
    /\ pc = "address"
    /\ UNCHANGED others
    /\ line \notin ExitLines
    /\ pc' = "email"
    /\ draft' = [draft EXCEPT !.shipping_address = line]
    /\ response' = "ask_email"
    /\ UNCHANGED <<flow, products, orders, available_categories, options,
                   calls, reported>>

\* The e-mail prompt taking the first line it is given.
Email_TakesAnyLine(line) ==
    /\ pc = "email"
    /\ UNCHANGED others
    /\ line \notin ExitLines
    /\ UNCHANGED <<products, orders, calls, reported>>
    /\ pc' = "phone"
    /\ draft' = [draft EXCEPT !.email = Strip(line)]
    /\ response' = "ask_phone"
    /\ UNCHANGED <<flow, available_categories, options>>

\* get_email_input
Email(line) ==
    /\ pc = "email"
    /\ UNCHANGED others
    /\ line \notin ExitLines
    /\ UNCHANGED <<products, orders, calls, reported>>
    /\ IF EmailMatches(Strip(line))
       THEN /\ pc' = "phone"
            /\ draft' = [draft EXCEPT !.email = Strip(line)]
            /\ response' = "ask_phone"
            /\ UNCHANGED <<flow, available_categories, options>>
       ELSE AskAgain("invalid_email")

\* get_phone_input
Phone(line) ==
    /\ pc = "phone"
    /\ UNCHANGED others
    /\ line \notin ExitLines
    /\ UNCHANGED <<products, orders, calls, reported>>
    /\ IF PhoneValid(Strip(line))
       THEN /\ pc' = "payment"
            /\ draft' = [draft EXCEPT !.phone = Strip(line)]
            /\ response' = "ask_payment"
            /\ UNCHANGED <<flow, available_categories, options>>
       ELSE AskAgain("invalid_phone")

\* "Please select a payment method (Visa, Mastercard, or cash): ": cash
\* places the order, a card asks for its details first.
Payment(line, db) ==
    /\ pc = "payment"
    /\ UNCHANGED others
    /\ line \notin ExitLines
    /\ UNCHANGED products
    /\ LET payment_method == Lower(Strip(line))
       IN  IF payment_method \notin PaymentMethods
           THEN /\ AskAgain("invalid_payment")
                /\ UNCHANGED <<orders, calls, reported>>
           ELSE IF payment_method = W_cash
           THEN Submit(draft, W_cash, db)
           ELSE /\ pc' = "card"
                /\ response' = "ask_card"
                /\ UNCHANGED <<flow, available_categories, options, draft,
                               orders, calls, reported>>

\* The card step with the ordered quantity taken off the product's stock.
Card_DecrementsStock(line, db) ==
    /\ pc = "card"
    /\ UNCHANGED others
    /\ line \notin ExitLines
    /\ products' = [products EXCEPT
                      ![draft.result.id].quantity = @ - draft.quantity]
    /\ Submit(draft, line, db)

\* "Please enter your card details (card number, expiration date, CVV): "
Card(line, db) ==
    /\ pc = "card"
    /\ UNCHANGED others
    /\ line \notin ExitLines
    /\ UNCHANGED products
    /\ Submit(draft, line, db)

(***************************************************************************)
(* The specification.                                                      *)
(***************************************************************************)
\* What the storage calls of a step can meet: every outcome for a call the
\* step makes, "ok" alone for a call it does not make.
TopFirstCall(line) ==
    IF IntentOf[line] \in {"list_products", "inquire_product", "search_product",
                           "place_order"}
    THEN DbOutcomes ELSE {"ok"}

TopSecondCall(line) ==
    IF IntentOf[line] = "inquire_product" THEN DbOutcomes ELSE {"ok"}

AttributeSecondCall == IF pc = "style" THEN DbOutcomes ELSE {"ok"}

Next ==
    \/ \E line \in ExitLines : Exit(line)
    \/ \E line \in Utterances :
         \E db \in TopFirstCall(line), db2 \in TopSecondCall(line) :
           Top(line, db, db2)
    \/ \E line \in Lines, db \in DbOutcomes : StatusId(line, db)
    \/ \E line \in Lines, db \in DbOutcomes : CancelId(line, db)
    \/ \E line \in Lines, db \in DbOutcomes : Category(line, db)
    \/ \E line \in Lines, db \in DbOutcomes, db2 \in AttributeSecondCall :
           Attribute(line, db, db2)
    \/ \E line \in Lines : Buy(line)
    \/ \E line \in Lines : Quantity(line)
    \/ \E line \in Lines : Price(line)
    \/ \E line \in NameLines : Name(line)
    \/ \E line \in FreeLines : Address(line)
    \/ \E line \in Lines : Email(line)
    \/ \E line \in Lines : Phone(line)
    \/ \E line \in Lines, db \in DbOutcomes : Payment(line, db)
    \/ \E line \in FreeLines, db \in DbOutcomes : Card(line, db)

Spec == Init /\ [][Next]_vars

\* chat() with every line of Spoken at "You: ", up to the payment prompt.
NextIntent ==
    \/ \E line \in ExitLines : Exit(line)
    \/ \E line \in Spoken :
         \E db \in TopFirstCall(line), db2 \in TopSecondCall(line) :
           Top(line, db, db2)
    \/ \E line \in Lines, db \in DbOutcomes : StatusId(line, db)
    \/ \E line \in Lines, db \in DbOutcomes : CancelId(line, db)
    \/ \E line \in Lines, db \in DbOutcomes : Category(line, db)
    \/ \E line \in Lines, db \in DbOutcomes, db2 \in AttributeSecondCall :
           Attribute(line, db, db2)
    \/ \E line \in Lines : Buy(line)
    \/ \E line \in Lines : Quantity(line)
    \/ \E line \in Lines : Price(line)
    \/ \E line \in NameLines : Name(line)
    \/ \E line \in FreeLines : Address(line)
    \/ \E line \in Lines : Email(line)
    \/ \E line \in Lines : Phone(line)

SpecIntent == Init /\ [][NextIntent]_vars

(***************************************************************************)
(* The cancellation dialogue over the orders tables storage may hold.      *)
(***************************************************************************)
StoredStatuses == {S_Processing, <<"O","n"," ","D","e","l","i","v","e","r","y">>, <<"O","N"," ","D","E","L","I","V","E","R","Y">>, S_Cancelled}

\* A row of the orders table with the given status.
StoredOrder(status) ==
    [OrderRow([EmptyDraft EXCEPT !.result = Catalog[1], !.quantity = 1],
              W_cash) EXCEPT !.status = status]

\* The number of rows of the orders tables the cancellation is tried on.
MaxStored == 2

\* The orders tables of up to MaxStored rows.
StoredTables ==
    UNION { [1..n -> {StoredOrder(a) : a \in StoredStatuses}] : n \in 0..MaxStored }

\* chat() at "Please enter your order ID to cancel: ", over any such table.
InitCancel ==
    /\ pc = "cancel_id"
    /\ others = << >>
    /\ flow = "cancel"
    /\ products = Catalog
    /\ orders \in StoredTables
    /\ available_categories = << >>
    /\ options = << >>
    /\ draft = EmptyDraft
    /\ response = "ask_order_id"
    /\ calls = 0
    /\ reported = 0

\* The utterances that ask for a cancellation.
CancelUtterances == { u \in Utterances : IntentOf[u] = "cancel_order" }

NextCancel ==
    \/ \E line \in ExitLines : Exit(line)
    \/ \E line \in CancelUtterances : Top(line, "ok", "ok")
    \/ \E line \in Lines, db \in DbOutcomes : CancelId(line, db)

SpecCancel == InitCancel /\ [][NextCancel]_vars

(***************************************************************************)
(* chat() over a products table with a price that is no number.            *)
(***************************************************************************)
\* The products table with the price of the first row NULL.
CatalogUnpriced == [Catalog EXCEPT ![1].price = [kind |-> "null", val |-> 0]]

InitUnpriced ==
    /\ pc = "top"
    /\ others = << >>
    /\ flow = "none"
    /\ products = CatalogUnpriced
    /\ orders = << >>
    /\ available_categories = << >>
    /\ options = << >>
    /\ draft = EmptyDraft
    /\ response = "welcome"
    /\ calls = 0
    /\ reported = 0

SpecUnpriced == InitUnpriced /\ [][Next]_vars

(***************************************************************************)
(* The style prompt over the products tables storage may hold.             *)
(***************************************************************************)
\* The number of rows of the products tables the attribute search is tried
\* on.
MaxRows == 3

\* A row of the products table.
StoredProduct(category, color, size, style, quantity) ==
    [Catalog[2] EXCEPT !.category = category, !.color = color, !.size = size,
                       !.style = style, !.quantity = quantity]

\* The rows the tables are made of: the polo tees in both colours and sizes,
\* one of them out of stock as well, a tee of another style and a hat of the
\* same style.
StoredProducts ==
    { StoredProduct(<<"T","e","e","s">>, color, size, <<"P","o","l","o">>, 1) :
          color \in {<<"R","e","d">>, <<"B","l","u","e">>}, size \in {<<"S">>, <<"L">>} }
    \cup { StoredProduct(<<"T","e","e","s">>, <<"R","e","d">>, <<"L">>, <<"P","o","l","o">>, 0),
           StoredProduct(<<"T","e","e","s">>, <<"R","e","d">>, <<"S">>, <<"T","a","n","k">>, 1),
           StoredProduct(<<"H","a","t","s">>, <<"R","e","d">>, <<"S">>, <<"P","o","l","o">>, 1) }

\* The products tables of one to MaxRows rows; a row's id is its place.
ProductTables ==
    { [i \in 1..Len(t) |-> [t[i] EXCEPT !.id = i]] :
        t \in UNION { [1..n -> StoredProducts] : n \in 1..MaxRows } }

\* chat() at the style prompt of the place_order branch: the category, the
\* colour and the size were chosen among those the table holds.
InitMatch ==
    /\ pc = "style"
    /\ others = << >>
    /\ flow = "place"
    /\ products \in ProductTables
    /\ orders = << >>
    /\ available_categories = get_product_categories(products, "ok")
    /\ \E category \in Range(available_categories) :
         \E color \in Range(get_distinct_values_for_category(products, "color",
                                                             category, "ok")),
            size \in Range(get_distinct_values_for_category(products, "size",
                                                            category, "ok")) :
            /\ draft = [EmptyDraft EXCEPT !.category = category, !.color = color,
                                          !.size = size]
            /\ options = get_distinct_values_for_category(products, "style",
                                                          category, "ok")
    /\ response = "ask_attribute"
    /\ calls = 0
    /\ reported = 0

\* What is typed at the style prompt.
StyleLines ==
    { <<"p","o","l","o">>, <<"T","A","N","K">>, <<" ","O","K"," ">> }

NextMatch ==
    \/ \E line \in ExitLines : Exit(line)
    \/ \E line \in StyleLines, db2 \in DbOutcomes : Attribute(line, "ok", db2)

SpecMatch == InitMatch /\ [][NextMatch]_vars

(***************************************************************************)
(* The search by name over the products tables storage may hold.           *)
(***************************************************************************)
\* The rows the tables are made of: three names, in stock or not.
NamedProducts ==
    { [Catalog[2] EXCEPT !.name = name, !.quantity = quantity] :
          name \in {<<"T","e","e">>, <<"T","-","e","e">>, <<"H","a","t">>}, quantity \in {0, 1} }

\* The products tables of up to MaxRows rows; a row's id is its place.
NamedTables ==
    { [i \in 1..Len(t) |-> [t[i] EXCEPT !.id = i]] :
        t \in UNION { [1..n -> NamedProducts] : n \in 0..MaxRows } }

\* chat() at "You: " over one of the tables.
InitSearch ==
    /\ pc = "top"
    /\ others = << >>
    /\ flow = "none"
    /\ products \in NamedTables
    /\ orders = << >>
    /\ available_categories = << >>
    /\ options = << >>
    /\ draft = EmptyDraft
    /\ response = "welcome"
    /\ calls = 0
    /\ reported = 0

\* Lines that lead to search_product, from either branch.
SearchUtterances ==
    { <<"d","o"," ","y","o","u"," ","h","a","v","e"," ","h","a","t">>,
      <<"d","o"," ","y","o","u"," ","h","a","v","e"," ","t","-","e","e">>,
      <<"i"," ","w","a","n","t"," ","s","o","c","k">>,
      <<"d","o"," ","y","o","u"," ","h","a","v","e">>,
      <<"f","i","n","d"," ","h","a","t">>,
      <<"f","i","n","d">> }

NextSearch ==
    \/ \E line \in ExitLines : Exit(line)
    \/ \E line \in SearchUtterances, db \in DbOutcomes : Top(line, db, "ok")

SpecSearch == InitSearch /\ [][NextSearch]_vars

(***************************************************************************)
(* The calls of normalize_text and of ratio() over the strings they take.  *)
(***************************************************************************)
\* The length of the texts normalize_text is called with.
MaxText == 4

\* The length of the strings ratio() is called with.
MaxWord == 3

\* The texts over a letter in both cases, another letter, an underscore and
\* a hyphen.
Texts ==
    UNION { [1..n -> {"a", "A", "b", "_", "-"}] : n \in 0..MaxText }

\* The lowered strings over three letters.
Words == UNION { [1..n -> {"a", "b", "c"}] : n \in 0..MaxWord }

\* A call of normalize_text(text) or of SequenceMatcher(None, a, b).ratio()
\* about to run: flow is the function, draft its arguments.
InitCalls ==
    /\ pc = "called"
    /\ others = << >>
    /\ \/ flow = "normalize_text" /\ \E text \in Texts : draft = [text |-> text]
       \/ flow = "ratio" /\ \E a \in Words, b \in Words : draft = [a |-> a, b |-> b]
    /\ products = Catalog
    /\ orders = << >>
    /\ available_categories = << >>
    /\ options = << >>
    /\ response = "welcome"
    /\ calls = 0
    /\ reported = 0

\* normalize_text returns; response is the value returned.
Normalize ==
    /\ pc = "called"
    /\ UNCHANGED others
    /\ flow = "normalize_text"
    /\ pc' = "returned"
    /\ response' = normalize_text(draft.text)
    /\ UNCHANGED <<flow, products, orders, available_categories, options, draft,
                   calls, reported>>

\* ratio() returns; response is the value returned.
Ratio ==
    /\ pc = "called"
    /\ UNCHANGED others
    /\ flow = "ratio"
    /\ pc' = "returned"
    /\ response' = ratio(draft.a, draft.b)
    /\ UNCHANGED <<flow, products, orders, available_categories, options, draft,
                   calls, reported>>

NextCalls == Normalize \/ Ratio

SpecCalls == InitCalls /\ [][NextCalls]_vars

(***************************************************************************)
(* Two chat() processes on the same storage.                               *)
(***************************************************************************)
\* The locals of the chat() process that is stepping.
Locals ==
    [pc |-> pc, flow |-> flow, available_categories |-> available_categories,
     options |-> options, draft |-> draft, response |-> response,
     calls |-> calls, reported |-> reported]

\* The process that steps next is another one: the processes wait at their
\* prompts independently and share nothing but storage.
Switch ==
    /\ Len(others) > 0
    /\ pc' = others[1].pc
    /\ flow' = others[1].flow
    /\ available_categories' = others[1].available_categories
    /\ options' = others[1].options
    /\ draft' = others[1].draft
    /\ response' = others[1].response
    /\ calls' = others[1].calls
    /\ reported' = others[1].reported
    /\ others' = Append(Tail(others), Locals)
    /\ UNCHANGED <<products, orders>>

\* Two processes of the place_order branch at the quantity prompt, with the
\* same product resolved.
InitTwo ==
    /\ pc = "quantity"
    /\ flow = "place"
    /\ products = Catalog
    /\ orders = << >>
    /\ available_categories = get_product_categories(products, "ok")
    /\ options = << >>
    /\ \E i \in 1..Len(products) :
          /\ products[i].quantity > 0
          /\ draft = [EmptyDraft EXCEPT !.result = products[i]]
    /\ response = "ask_quantity"
    /\ calls = 0
    /\ reported = 0
    /\ others = <<Locals>>

NextTwo ==
    \/ Switch
    \/ \E line \in Lines : Quantity(line)
    \/ \E line \in Lines : Price(line)
    \/ \E line \in NameLines : Name(line)
    \/ \E line \in FreeLines : Address(line)
    \/ \E line \in Lines : Email(line)
    \/ \E line \in Lines : Phone(line)
    \/ \E line \in Lines, db \in DbOutcomes : Payment(line, db)
    \/ \E line \in FreeLines, db \in DbOutcomes : Card(line, db)

SpecTwo == InitTwo /\ [][NextTwo]_vars

(***************************************************************************)
(* What the properties below are stated with.                              *)
(***************************************************************************)
\* The lines get_input hands to the prompt that asked for them.
InputLines == (Lines \cup NameLines \cup FreeLines) \ ExitLines

IsAffirmative(line) == Lower(Strip(line)) \in SYNONYMS_YES

IsNegative(line) == Lower(Strip(line)) \in SYNONYMS_NO

\* The prompts of the order dialogue: SelectCategory, SelectColor,
\* SelectSize, SelectStyle, ConfirmStock&Quantity, ConfirmPrice,
\* CollectCustomer, CollectShipping, CollectEmail, CollectPhone and
\* CollectPayment (the method, then the card).
OrderDialogueStates ==
    {"category", "color", "size", "style", "quantity", "price", "name",
     "address", "email", "phone", "payment", "card"}

\* The step takes the attempt from an order dialogue back to "You: " with
\* no order created and msg printed.
EndsCancelled(msgs) ==
    /\ pc' = "top"
    /\ response' \in msgs
    /\ orders' = orders
    /\ draft' = EmptyDraft

\* The step creates one order and reports its id.
EndsSubmitted ==
    /\ pc' = "top"
    /\ response' = "order_placed"
    /\ calls' = calls + 1
    /\ Len(orders') = Len(orders) + 1
    /\ SubSeq(orders', 1, Len(orders)) = orders
    /\ reported' = Len(orders')

\* What the chatbot prints when an attempt ends with no order.
CancelMessages ==
    {"chose_no_order_cancelled", "order_cancelled", "inquiry_cancelled",
     "invalid_number_cancelled", "stock_cancelled", "no_colors", "no_sizes",
     "no_styles", "alternatives", "no_alternatives", "search_error",
     "order_error"}

\* The value prompt_for_attribute returns for a line, when it returns one.
Chosen(line) == prompt_for_attribute(options, line)

(***************************************************************************)
(* C1                                                                      *)
(***************************************************************************)
\* C1: the dialogue is at the ConfirmPrice prompt only with a quantity q of
\* the resolved product P such that 1 <= q <= P.quantity.
C1_QuantityGuard ==
    pc = "price" =>
        /\ Has(draft.result, "quantity")
        /\ 1 <= draft.quantity
        /\ draft.quantity <= draft.result.quantity

(***************************************************************************)
(* C2                                                                      *)
(***************************************************************************)
\* C2: whenever place_order is called, the quantity of the order is not
\* greater than the quantity of the product as it was read when the
\* dialogue resolved it, and the row inserted carries that quantity.
C2_OrderWithinStock ==
    [][calls' = calls + 1 =>
         /\ Has(draft.result, "quantity")
         /\ draft.quantity <= draft.result.quantity
         /\ orders' # orders =>
              /\ orders'[Len(orders')].quantity = draft.quantity
              /\ orders'[Len(orders')].product_id = draft.result.id
              /\ orders'[Len(orders')].quantity
                   <= products[draft.result.id].quantity]_vars

\* An order for the whole stock of its product has been placed.
C2_Witness ==
    /\ pc = "top"
    /\ response = "order_placed"
    /\ Len(orders) >= 1
    /\ orders[Len(orders)].quantity >= 1
    /\ orders[Len(orders)].quantity = products[orders[Len(orders)].product_id].quantity

(***************************************************************************)
(* C3                                                                      *)
(***************************************************************************)
\* C3: a negative synonym at an attribute prompt with one option ends the
\* attempt at once: the next prompt is "You: ", the order is reported
\* cancelled, and place_order is not called in the attempt.
C3_NoAtSingleOptionCancels ==
    [][\A line \in InputLines, db \in DbOutcomes, db2 \in DbOutcomes :
         (/\ pc \in AttributePrompts
          /\ Len(options) = 1
          /\ IsNegative(line)
          /\ Attribute(line, db, db2))
         => (/\ EndsCancelled({"chose_no_order_cancelled"})
             /\ calls' = 0)]_vars

\* An attempt has ended on "no" at a single-option prompt.
C3_Witness ==
    /\ pc = "top"
    /\ response = "chose_no_order_cancelled"
    /\ calls = 0
    /\ orders = << >>

(***************************************************************************)
(* C4                                                                      *)
(***************************************************************************)
\* C4: every step that ends an order dialogue, other than on the exit
\* sentinel, either creates an order and reports its id or creates none and
\* says so.
C4_SubmittedOrCancelled ==
    [][(/\ flow \in {"place", "inquire"}
        /\ pc' \notin OrderDialogueStates \cup {"buy", "exited"})
       => (EndsSubmitted \/ EndsCancelled(CancelMessages))]_vars

(***************************************************************************)
(* C5                                                                      *)
(***************************************************************************)
\* A cancel exit: a line other than the exit sentinel that, with storage
\* working, takes the dialogue from its prompt back to "You: " with no
\* order created.
CancelExit ==
    \E line \in InputLines :
        /\ \/ Category(line, "ok")
           \/ Attribute(line, "ok", "ok")
           \/ Quantity(line)
           \/ Price(line)
           \/ Name(line)
           \/ Address(line)
           \/ Email(line)
           \/ Phone(line)
           \/ Payment(line, "ok")
           \/ Card(line, "ok")
        /\ pc' = "top"
        /\ orders' = orders
        /\ calls' = calls

\* The style prompt offers a style for which the attribute search answers
\* "Product not found" or "Product sold out".
OffersUnavailableStyle ==
    /\ pc = "style"
    /\ \E k \in 1..Len(options) :
          LET r == search_product_by_attributes(products, draft.category,
                       draft.color, draft.size, options[k], "ok")
          IN  ResultIs(r, "Product not found") \/ ResultIs(r, "Product sold out")

\* The prompts that have a cancel exit.
HasCancelExit ==
    \/ pc = "price"
    \/ pc \in AttributePrompts /\ Len(options) = 1
    \/ pc = "quantity" /\ flow = "inquire"
    \/ Len(options) > 1 /\ OffersUnavailableStyle

\* C5 (as stated): every prompt of the order dialogue has a cancel exit.
C5_CancelExitEverywhere ==
    pc \in OrderDialogueStates => ENABLED CancelExit

\* C5 (amended): a prompt of the order dialogue has a cancel exit exactly
\* when it is ConfirmPrice, an attribute prompt with one option, the
\* quantity prompt of the inquiry's purchase, or a style prompt offering a
\* style that resolves to no available product.
C5_CancelExits ==
    pc \in OrderDialogueStates => (ENABLED CancelExit <=> HasCancelExit)

\* A single-option size prompt, which a negative synonym cancels.
C5_Witness ==
    /\ pc = "size"
    /\ Len(options) = 1
    /\ ENABLED CancelExit

(***************************************************************************)
(* C6                                                                      *)
(***************************************************************************)
\* What follows the selection of the only option at an attribute prompt:
\* the next prompt with the option recorded, or the end of the attempt the
\* branch decides on; never the same prompt again nor the cancellation of a
\* "no".
SelectsOnlyOption(db) ==
    /\ response' \notin {"invalid_input", "invalid_option",
                         "chose_no_order_cancelled"}
    /\ CASE pc = "color" ->
              IF db = "ok"
              THEN pc' = "size" /\ draft' = [draft EXCEPT !.color = options[1]]
              ELSE EndsCancelled({"no_sizes"})
         [] pc = "size" ->
              IF db = "ok"
              THEN pc' = "style" /\ draft' = [draft EXCEPT !.size = options[1]]
              ELSE EndsCancelled({"no_styles"})
         [] pc = "style" ->
              /\ pc' \in {"quantity", "top", "crashed"}
              /\ (pc' = "quantity" /\ db = "ok") =>
                     /\ draft'.result.category = draft.category
                     /\ Lower(draft'.result.style) = Lower(options[1])

\* C6: at an attribute prompt with one option an affirmative synonym
\* selects the option, and a line that is neither an affirmative nor a
\* negative synonym is answered "Invalid input" and leaves the dialogue at
\* the same prompt with the same option.
C6_SingleOptionPrompt ==
    [][\A line \in InputLines, db \in DbOutcomes, db2 \in DbOutcomes :
         (/\ pc \in AttributePrompts
          /\ Len(options) = 1
          /\ Attribute(line, db, db2))
         => /\ IsAffirmative(line) => SelectsOnlyOption(db)
            /\ (~IsAffirmative(line) /\ ~IsNegative(line)) =>
                  /\ response' = "invalid_input"
                  /\ UNCHANGED <<pc, flow, options, draft, orders, calls>>]_vars

\* The single-option size prompt has answered "Invalid input".
C6_Witness ==
    /\ pc = "size"
    /\ Len(options) = 1
    /\ response = "invalid_input"
    /\ draft.color # << >>

(***************************************************************************)
(* C7                                                                      *)
(***************************************************************************)
\* C7: at ConfirmPrice an affirmative synonym goes on to the customer's
\* name, and every other line, a negative synonym or not, cancels the
\* order: no order is created and place_order is not called.
C7_PriceConfirmation ==
    [][\A line \in InputLines :
         (pc = "price" /\ Price(line))
         => IF IsAffirmative(line)
            THEN pc' = "name" /\ UNCHANGED <<draft, orders, calls>>
            ELSE EndsCancelled({"order_cancelled"}) /\ calls' = 0]_vars

\* An attempt has ended at ConfirmPrice.
C7_Witness ==
    /\ pc = "top"
    /\ response = "order_cancelled"
    /\ calls = 0

(***************************************************************************)
(* C8                                                                      *)
(***************************************************************************)
\* The line is rejected at the quantity prompt: it is no number, or the
\* number is greater than the stock.
RejectedQuantity(line) ==
    \/ ~ParseInt(line).ok
    \/ ParseInt(line).val > AvailableStock(draft.result)

C9_UnavailableListsAlternatives ==
    [][\A line \in InputLines, db \in DbOutcomes, db2 \in DbOutcomes :
         (/\ pc = "style"
          /\ Attribute(line, db, db2)
          /\ Chosen(line).kind = "option"
          /\ LET r == search_product_by_attributes(products, draft.category,
                          draft.color, draft.size, Chosen(line).value, db)
             IN  \/ ResultIs(r, "Product not found")
                 \/ ResultIs(r, "Product sold out"))
         => (/\ EndsCancelled({"alternatives", "no_alternatives"})
             /\ calls' = 0)]_vars

(***************************************************************************)
(* C10                                                                     *)
(***************************************************************************)
\* The values storage returns for the attribute asked after the prompt pc.
NextValues(category, db) ==
    get_distinct_values_for_category(products,
        CASE pc = "category" -> "color" [] pc = "color" -> "size"
          [] OTHER -> "style",
        category, db)

\* C10: when storage returns no value for the attribute to ask next, a
\* failed query included, the step says that none is available and ends
\* the attempt: no prompt for the attribute, no order.
C10_EmptyOptionsCancel ==
    [][\A line \in InputLines, db \in DbOutcomes :
         /\ (/\ pc = "category"
             /\ Category(line, db)
             /\ CategoryIndex(available_categories, line) # 0
             /\ NextValues(available_categories[
                    CategoryIndex(available_categories, line)], db) = << >>)
            => (EndsCancelled({"no_colors"}) /\ calls' = 0)
         /\ (/\ pc \in {"color", "size"}
             /\ Attribute(line, db, "ok")
             /\ Chosen(line).kind = "option"
             /\ NextValues(draft.category, db) = << >>)
            => (/\ EndsCancelled({IF pc = "color" THEN "no_sizes" ELSE "no_styles"})
                /\ calls' = 0)]_vars

\* An attempt has ended for want of sizes.
C10_Witness ==
    /\ pc = "top"
    /\ response = "no_sizes"
    /\ calls = 0

(***************************************************************************)
(* C11                                                                     *)
(***************************************************************************)
\* Thirteen characters, the first of them '+'.
PhoneShaped(text) == Len(text) = 13 /\ text[1] = "+"

\* C11: the phone prompt is left, for the payment prompt, only on a line
\* that trimmed has thirteen characters and begins with '+', and that
\* value is the one recorded; any other line leaves the dialogue at the
\* phone prompt; every order row carries a phone of that shape.
C11_PhoneShape ==
    [][/\ \A line \in InputLines :
             (pc = "phone" /\ Phone(line))
             => IF PhoneShaped(Strip(line))
                THEN pc' = "payment" /\ draft'.phone = Strip(line)
                ELSE /\ response' = "invalid_phone"
                     /\ UNCHANGED <<pc, flow, draft, orders, calls>>
       /\ \A i \in 1..Len(orders') : PhoneShaped(orders'[i].phone)]_vars

\* An order has been placed with the phone number typed with a space after
\* it.
C11_Witness ==
    /\ response = "order_placed"
    /\ Len(orders) >= 1
    /\ PhoneShaped(orders[Len(orders)].phone)

(***************************************************************************)
(* C12                                                                     *)
(***************************************************************************)
\* The step submits the draft: "cash" at the payment prompt, or any line at
\* the card prompt.
Submits(line, db) ==
    \/ pc = "payment" /\ Lower(Strip(line)) = W_cash /\ Payment(line, db)
    \/ pc = "card" /\ Card(line, db)

\* C12: the submission calls place_order once, and nothing else in the
\* attempt calls it.  When storage accepts the row there is exactly one new
\* order, of status Processing, for the product and the customer of the
\* draft, and its id is the one reported; when storage fails no order is
\* recorded, the failure is reported, and the attempt is over.
C12_SubmitOnce ==
    [][/\ calls' <= 1
       /\ (calls' # calls /\ calls' # 0) => \E line \in InputLines, db \in DbOutcomes :
                                               Submits(line, db)
       /\ Len(orders') # Len(orders) => calls' = calls + 1
       /\ \A line \in InputLines, db \in DbOutcomes :
             Submits(line, db)
             => /\ calls = 0 /\ calls' = 1
                /\ pc' = "top"
                /\ IF db = "ok"
                   THEN /\ Len(orders') = Len(orders) + 1
                        /\ SubSeq(orders', 1, Len(orders)) = orders
                        /\ orders'[Len(orders')].status = S_Processing
                        /\ orders'[Len(orders')].product_id = draft.result.id
                        /\ orders'[Len(orders')].customer_name = draft.customer_name
                        /\ reported' = Len(orders')
                        /\ response' = "order_placed"
                   ELSE /\ orders' = orders
                        /\ reported' = reported
                        /\ response' = "order_error"]_vars

\* A submission has failed in storage: one call, no order.
C12_Witness ==
    /\ pc = "top"
    /\ response = "order_error"
    /\ calls = 1
    /\ orders = << >>

(***************************************************************************)
(* C13                                                                     *)
(***************************************************************************)
\* The order the line names is on delivery, whatever the case of its
\* status.
OnDelivery(id) ==
    /\ id \in 1..Len(orders)
    /\ Lower(orders[id].status) = <<"o","n"," ","d","e","l","i","v","e","r","y">>

\* C13: a cancellation that storage answers is rejected for an order on
\* delivery, whose status stays as it is; reports "Order not found" for an
\* id that names no order and changes no order; and otherwise sets the
\* status of that order, and nothing else in the table, to Cancelled.  A
\* cancellation storage fails on changes no order.
C13_CancelOrder ==
    [][\A line \in InputLines, db \in DbOutcomes :
         (pc = "cancel_id" /\ CancelId(line, db) /\ ParseInt(line).ok)
         => LET id == ParseInt(line).val
            IN  IF db # "ok"
                THEN orders' = orders /\ response' = "cancel_error"
                ELSE IF id \notin 1..Len(orders)
                THEN orders' = orders /\ response' = "Order not found"
                ELSE IF OnDelivery(id)
                THEN /\ orders' = orders
                     /\ response' = "Order is on delivery and cannot be cancelled"
                ELSE /\ response' = "order_cancelled_ok"
                     /\ Len(orders') = Len(orders)
                     /\ orders'[id].status = S_Cancelled
                     /\ \A i \in 1..Len(orders) : i # id => orders'[i] = orders[i]
                     /\ \A f \in DOMAIN orders[id] \ {"status"} :
                            orders'[id][f] = orders[id][f]]_vars

\* An order typed ON DELIVERY is still so after a cancellation was asked
\* for and rejected, next to an order that was cancelled.
C13_Witness ==
    /\ response = "Order is on delivery and cannot be cancelled"
    /\ Len(orders) = 2
    /\ orders[2].status = <<"O","N"," ","D","E","L","I","V","E","R","Y">>
    /\ orders[1].status = S_Cancelled

(***************************************************************************)
(* C14                                                                     *)
(***************************************************************************)
\* The lines that are "exit" once trimmed and case folded.
ExitTyped ==
    { line \in AllLines : Lower(Strip(line)) = <<"e","x","i","t">> }

\* What the program does with a line, at whatever prompt it waits.
Reads(line) ==
    \/ Exit(line)
    \/ \E db \in DbOutcomes, db2 \in DbOutcomes :
          \/ Top(line, db, db2)
          \/ StatusId(line, db)
          \/ CancelId(line, db)
          \/ Category(line, db)
          \/ Attribute(line, db, db2)
          \/ Payment(line, db)
          \/ Card(line, db)
    \/ Buy(line) \/ Quantity(line) \/ Price(line) \/ Name(line)
    \/ Address(line) \/ Email(line) \/ Phone(line)

\* C14: at every prompt, a line that is "exit" once trimmed and case folded
\* can be typed and ends the process there: the orders table is left as it
\* is, place_order is not called, and the process takes no step after it.
C14_ExitAtAnyPrompt ==
    [][/\ pc # "exited"
       /\ pc \in Prompts => \A line \in ExitTyped : ENABLED Exit(line)
       /\ \A line \in ExitTyped :
             Reads(line) => /\ pc' = "exited"
                            /\ UNCHANGED <<orders, products, calls, reported>>]_vars

\* The process has exited in the middle of an order dialogue, at the
\* address prompt.
C14_Witness ==
    /\ pc = "exited"
    /\ flow \in {"place", "inquire"}
    /\ draft.customer_name # << >>
    /\ draft.shipping_address = << >>

(***************************************************************************)
(* C15                                                                     *)
(***************************************************************************)
\* C15: whatever the user types and whatever storage answers, the process
\* is at a prompt of the chat loop or has exited on the exit sentinel; it
\* never ends in an unhandled failure.
C15_NoFatalError ==
    pc \in Prompts \cup {"exited"}

(***************************************************************************)
(* C16                                                                     *)
(***************************************************************************)
\* The product row the attribute search returns for the style the line
\* chooses, when it returns one.
Resolved(line) ==
    search_product_by_attributes(products, draft.category, draft.color,
                                 draft.size, Chosen(line).value, "ok")

\* C16: the order dialogue goes on with every product it resolves, whatever
\* its price: the step that resolves a product ends at the quantity
\* prompt, and the total shown at ConfirmPrice is price x quantity
\* for a numeric price and 0 for a price that is missing or no number.
C16_PriceDegrades ==
    [][/\ \A line \in InputLines :
             (/\ pc = "style"
              /\ Attribute(line, "ok", "ok")
              /\ Chosen(line).kind = "option"
              /\ Has(Resolved(line), "name"))
             => (pc' = "quantity" /\ draft'.result = Resolved(line))
       /\ pc' = "price" =>
             draft'.total_price =
                 IF draft'.result.price.kind = "decimal"
                 THEN draft'.result.price.val * draft'.quantity
                 ELSE 0]_vars

(***************************************************************************)
(* C17                                                                     *)
(***************************************************************************)
\* The utterance holds the phrase "cancel order" and the word "buy".
CancelAndBuy(u) ==
    /\ Contains(Lower(u), <<"c","a","n","c","e","l"," ","o","r","d","e","r">>)
    /\ HasWord(Lower(u), <<"b","u","y">>)

\* Storage working, chat() takes the cancel_order branch for the utterance.
TakesCancelBranch(u) ==
    Top(u, "ok", "ok") => (pc' = "cancel_id" /\ flow' = "cancel")

\* The utterances of that kind, and those of them without "suggest".
CancelAndBuyUtterances == { u \in Utterances \ ExitLines : CancelAndBuy(u) }

CancelAndBuyNoSuggest ==
    { u \in CancelAndBuyUtterances :
        ~Contains(Lower(u), <<"s","u","g","g","e","s","t">>) }

\* C17 (as stated): every utterance with the phrase "cancel order" and the
\* word "buy" is dispatched as a cancellation.
C17_CancelBeforeBuy ==
    [][pc = "top" => \A u \in CancelAndBuyUtterances : TakesCancelBranch(u)]_vars

\* C17 (amended): every utterance with the phrase "cancel order" and the
\* word "buy", and without "suggest", is dispatched as a cancellation.
C17_CancelBeforeBuyUnlessSuggest ==
    [][pc = "top" => \A u \in CancelAndBuyNoSuggest : TakesCancelBranch(u)]_vars

\* At "You: " after an earlier exchange, an utterance of that kind is taken
\* to the prompt for the order id to cancel.
C17_Witness ==
    /\ pc = "top"
    /\ response # "welcome"
    /\ \E u \in CancelAndBuyNoSuggest :
          /\ StartsWithInterrogative(u)
          /\ ENABLED (Top(u, "ok", "ok") /\ pc' = "cancel_id")

(***************************************************************************)
(* C18                                                                     *)
(***************************************************************************)
\* The predicates of the rules 1 to 9, each on its own.
RuleHolds(k, u) ==
    LET low == Lower(u)
        verbs == \/ HasWord(low, <<"o","r","d","e","r">>)
                 \/ HasWord(low, <<"b","u","y">>)
                 \/ HasWord(low, <<"p","u","r","c","h","a","s","e">>)
    IN  CASE k = 1 -> \/ Contains(low, <<"s","u","g","g","e","s","t">>)
                      \/ RatioAtLeast(normalize_text(u), <<"o","r","d","e","r">>, 8, 10)
          [] k = 2 -> \/ Contains(low, <<"c","a","n","c","e","l"," ","o","r","d","e","r">>)
                      \/ Contains(low, <<"c","a","n","c","e","l"," ","m","y"," ","o","r","d","e","r">>)
          [] k = 3 -> Contains(low, <<"s","t","a","t","u","s">>)
          [] k = 4 -> \/ Contains(low, <<"d","o"," ","y","o","u"," ","h","a","v","e">>)
                      \/ (Contains(low, <<"i"," ","w","a","n","t">>) /\ ~verbs)
          [] k = 5 -> /\ Contains(low, <<"p","r","o","d","u","c","t","s">>)
                      /\ \/ Contains(low, <<"s","h","o","w">>)
                         \/ Contains(low, <<"l","i","s","t">>)
          [] k = 6 -> StartsWithInterrogative(u)
          [] k = 7 -> Contains(low, <<"a","d","d"," ","i","t"," ","t","o"," ","t","h","e"," ","c","a","r","t">>)
          [] k = 8 -> verbs
          [] k = 9 -> \/ HasWord(low, <<"f","i","n","d">>)
                      \/ HasWord(low, <<"a","v","a","i","l","a","b","l","e">>)
                      \/ HasWord(low, <<"s","e","a","r","c","h">>)

\* The intent of each rule, in the canonical order; rule 10 is the default.
RuleIntent ==
    <<"place_order", "cancel_order", "order_status", "inquire_product",
      "list_products", "general", "add_to_cart", "place_order",
      "search_product", "general">>

\* The intent of the lowest-numbered rule the utterance satisfies.
FirstMatch(u) ==
    LET held == { k \in 1..9 : RuleHolds(k, u) }
    IN  RuleIntent[IF held = {} THEN 10 ELSE MinOf(held)]

\* Every utterance with that intent and the rules it satisfies.
Expected ==
    { [said |-> u, intent |-> FirstMatch(u),
       held |-> { k \in 1..9 : RuleHolds(k, u) }] : u \in Spoken \ ExitLines }

\* The branch of chat() the step has entered, storage working.
BranchEntered(intent) ==
    CASE intent = "place_order"     -> pc' = "category" /\ flow' = "place"
      [] intent = "cancel_order"    -> pc' = "cancel_id" /\ flow' = "cancel"
      [] intent = "order_status"    -> pc' = "status_id" /\ flow' = "status"
      [] intent = "inquire_product" -> flow' = "inquire" \/ pc' = "crashed"
      [] intent = "list_products"   -> pc' = "top" /\ response' = "product_list"
      [] intent = "general"         ->
             pc' = "top" /\ response' \in {"not_configured", "generated",
                                           "could_not_generate"}
      [] intent = "add_to_cart"     -> pc' = "top" /\ response' = "cart_unsupported"
      [] intent = "search_product"  ->
             pc' = "top" /\ response' \in {"not_in_inventory", "sold_out",
                                           "found_product"}

\* C18: chat() enters, for every utterance, the branch of the intent of the
\* lowest-numbered rule the utterance satisfies, and the general branch
\* when it satisfies none; the intent is one of the eight.
C18_FirstMatchWins ==
    pc = "top" =>
       \A e \in Expected :
          /\ e.intent \in {"cancel_order", "order_status", "inquire_product",
                           "list_products", "add_to_cart", "place_order",
                           "search_product", "general"}
          /\ ~ENABLED (Top(e.said, "ok", "ok") /\ ~BranchEntered(e.intent))

\* At "You: " after an earlier exchange, an utterance with "status", a verb
\* of rule 8 and a verb of rule 9, and nothing of the rules 1 and 2, is
\* taken to the prompt for the order id of the status branch.
C18_Witness ==
    /\ pc = "top"
    /\ response # "welcome"
    /\ \E e \in Expected :
          /\ e.intent = "order_status"
          /\ {3, 8, 9} \subseteq e.held
          /\ ENABLED (Top(e.said, "ok", "ok") /\ pc' = "status_id")

(***************************************************************************)
(* C19                                                                     *)
(***************************************************************************)
\* 1 for a colour that is not the requested one plus 1 for a size that is
\* not the requested one.
Mismatch(p) ==
    (IF Lower(p.color) = Lower(draft.color) THEN 0 ELSE 1)
    + (IF Lower(p.size) = Lower(draft.size) THEN 0 ELSE 1)

\* The places in storage of the in-stock products of the requested category
\* and of a style.
InStockOfStyle(style) ==
    { i \in 1..Len(products) : /\ products[i].category = draft.category
                               /\ Lower(products[i].style) = Lower(style)
                               /\ products[i].quantity > 0 }

\* A product of storage has the four requested attributes.
ExactMatchExists(style) ==
    \E i \in 1..Len(products) : /\ products[i].category = draft.category
                                /\ Lower(products[i].style) = Lower(style)
                                /\ Mismatch(products[i]) = 0

\* i is the first place, among those of S, of a product of least mismatch.
FirstOfLeast(i, S) ==
    /\ i \in S
    /\ \A j \in S : /\ Mismatch(products[i]) <= Mismatch(products[j])
                    /\ Mismatch(products[j]) = Mismatch(products[i]) => i <= j

\* C19: when the style is chosen and storage holds no product with the four
\* requested attributes, the product the dialogue goes on with is, among the
\* in-stock products of the requested category and style, the first in
\* storage order of those with the least mismatch score (so the first of
\* score 1 before any of score 2); with no such product none is found and no
\* order is started.
C19_BestCandidateFirst ==
    [][\A line \in StyleLines :
          ( /\ pc = "style"
            /\ Chosen(line).kind = "option"
            /\ ~ExactMatchExists(Chosen(line).value)
            /\ Attribute(line, "ok", "ok") )
          => LET S == InStockOfStyle(Chosen(line).value)
             IN  IF S = {}
                 THEN EndsCancelled({"alternatives"})
                 ELSE /\ pc' = "quantity"
                      /\ \E i \in S : /\ FirstOfLeast(i, S)
                                      /\ draft'.result = products[i]]_vars

\* The style is asked with, in storage, polo tees in stock of scores 2, 1
\* and 1 in this order and none of score 0, and accepting polo goes on with
\* the second product.
C19_Witness ==
    /\ pc = "style"
    /\ Len(products) = 3
    /\ InStockOfStyle(<<"P","o","l","o">>) = {1, 2, 3}
    /\ ~ExactMatchExists(<<"P","o","l","o">>)
    /\ Mismatch(products[1]) = 2
    /\ Mismatch(products[2]) = 1
    /\ Mismatch(products[3]) = 1
    /\ \E line \in StyleLines :
          ENABLED ( /\ Attribute(line, "ok", "ok")
                    /\ pc' = "quantity"
                    /\ draft'.result = products[2] )

(***************************************************************************)
(* C20                                                                     *)
(***************************************************************************)
\* The lines that lead to search_product, each with its branch and the name
\* it asks for.
Asked ==
    { [said |-> u, intent |-> IntentOf[u],
       name |-> IF IntentOf[u] = "inquire_product" THEN InquiryQuery(u)
                ELSE ProductQuery(u)] : u \in SearchUtterances }

\* The places in storage of the products whose name has the name asked as a
\* substring, letter case aside.
SubstringHits(name) ==
    { i \in 1..Len(products) : Contains(Lower(products[i].name), Lower(name)) }

\* The places in storage of the products whose normalized name contains the
\* normalized name asked.
NormalizedHits(name) ==
    { i \in 1..Len(products) :
        Contains(normalize_text(products[i].name), normalize_text(name)) }

InStock(S) == { i \in S : products[i].quantity > 0 }

\* The answer of search_product the claim states for a name.
AnswerStated(name) ==
    LET hits == SubstringHits(name)
        near == InStock(NormalizedHits(name))
    IN  IF hits # {}
        THEN IF products[MinOf(hits)].quantity = 0
             THEN [kind |-> "SoldOut"]
             ELSE [kind |-> "Product", product |-> products[MinOf(hits)]]
        ELSE IF near # {}
             THEN [kind |-> "Product", product |-> products[MinOf(near)]]
             ELSE [kind |-> "NotFound"]

\* What the branch of a line does with each answer of search_product.
Sees(e, answer) ==
    IF e.intent = "inquire_product"
    THEN CASE answer.kind = "Product" ->
                /\ pc' = "buy"
                /\ response' = "yes_we_have"
                /\ draft'.result = answer.product
                /\ draft'.result.quantity > 0
           [] answer.kind = "SoldOut" -> pc' = "crashed"
           [] answer.kind = "NotFound" ->
                pc' = "category" /\ response' = "ask_category"
    ELSE /\ pc' = "top"
         /\ response' = CASE answer.kind = "Product" -> "found_product"
                          [] answer.kind = "SoldOut" -> "sold_out"
                          [] answer.kind = "NotFound" -> "not_in_inventory"

\* C20: search_product answers "Product sold out" when the first product in
\* storage order whose name has the name asked as a substring has quantity 0
\* and answers that product otherwise; with no such product it answers the
\* first product in storage order whose normalized name contains the
\* normalized name asked and whose quantity is > 0, and "Product not found"
\* when there is none; a product it answers has quantity > 0.
C20_SearchProduct ==
    pc = "top" =>
       \A e \in Asked :
          /\ e.intent \in {"inquire_product", "search_product"}
          /\ \A answer \in {AnswerStated(e.name)} :
                /\ answer.kind = "Product" => answer.product.quantity > 0
                /\ ~ENABLED (Top(e.said, "ok", "ok") /\ ~Sees(e, answer))

\* Storage holds a product out of stock, the first with the name asked as a
\* substring, and the search answers that it is sold out; and for a name
\* that is a substring of no name it holds, in this order, a product out of
\* stock and one in stock that match once normalized, and the search answers
\* the one in stock.
C20_Witness ==
    /\ pc = "top"
    /\ Len(products) = 3
    /\ \E e \in Asked :
          /\ e.intent = "search_product"
          /\ MinOf(SubstringHits(e.name) \cup {3}) = 1
          /\ products[1].quantity = 0
          /\ ENABLED (Top(e.said, "ok", "ok") /\ response' = "sold_out")
    /\ \E e \in Asked :
          /\ SubstringHits(e.name) = {}
          /\ NormalizedHits(e.name) = {2, 3}
          /\ InStock({2, 3}) = {3}
          /\ ENABLED (Top(e.said, "ok", "ok") /\ pc' = "buy" /\ draft'.result = products[3])

(***************************************************************************)
(* C21                                                                     *)
(***************************************************************************)
\* C21: normalize_text is idempotent: the text a call returns is returned
\* as it is by a second call, for every text, the empty one and those with
\* punctuation, underscores and runs of three or more of a character among
\* them.
C21_NormalizeIdempotent ==
    (pc = "returned" /\ flow = "normalize_text")
    => normalize_text(response) = response

\* A call has returned for a text with an underscore inside what becomes a
\* run of three once the underscore is removed, and the run was reduced to
\* two.
C21_Witness ==
    /\ pc = "returned"
    /\ flow = "normalize_text"
    /\ draft.text = <<"A", "_", "a", "a">>
    /\ response = <<"a", "a">>

(***************************************************************************)
(* C22                                                                     *)
(***************************************************************************)
\* C22 (as stated): ratio(a, b) = ratio(b, a) for all strings a and b, and
\* ratio(a, b) = 1.0 whenever a = b.
C22_RatioSymmetric ==
    (pc = "returned" /\ flow = "ratio")
    => /\ response = ratio(draft.b, draft.a)
       /\ draft.a = draft.b => response.num = response.den

\* C22 (amended): ratio(a, b) lies between 0 and 1 and is 1.0 exactly when
\* a = b, two empty strings included; it depends on the order of a and b.
C22_RatioOneIffEqual ==
    (pc = "returned" /\ flow = "ratio")
    => /\ response.den > 0
       /\ 0 <= response.num
       /\ response.num <= response.den
       /\ response.num = response.den <=> draft.a = draft.b

\* A call has returned 1.0 for two equal strings of three letters.
C22_Witness ==
    /\ pc = "returned"
    /\ flow = "ratio"
    /\ draft.a = <<"a", "b", "a">>
    /\ draft.b = draft.a
    /\ response.num = response.den

(***************************************************************************)
(* C23                                                                     *)
(***************************************************************************)
\* The quantities of the orders created for a product.
RECURSIVE OrderedQuantity(_, _)
OrderedQuantity(table, id) ==
    IF Len(table) = 0 THEN 0
    ELSE (IF Head(table).product_id = id THEN Head(table).quantity ELSE 0)
         + OrderedQuantity(Tail(table), id)

\* C23: with two sessions in the order dialogue on the same product, the
\* stock check and the creation of the order are not atomic: a session that
\* has passed the check at the quantity prompt creates its order when it
\* pays, whatever orders the other session has created for the product since
\* the check, so both orders are created and their quantities together can
\* exceed the stock.
C23_CheckThenCreate ==
    (pc = "payment" /\ Len(others) = 1)
    => /\ draft.quantity <= draft.result.quantity
       /\ ENABLED ( /\ Payment(W_cash, "ok")
                    /\ orders' = Append(orders, OrderRow(draft, W_cash))
                    /\ response' = "order_placed" )

\* Both sessions have created their order for the same product, each for a
\* quantity within the stock, and the two quantities together exceed it.
C23_Witness ==
    /\ Len(others) = 1
    /\ pc = "top" /\ response = "order_placed" /\ calls = 1
    /\ others[1].pc = "top" /\ others[1].response = "order_placed"
    /\ others[1].calls = 1
    /\ {reported, others[1].reported} = {1, 2}
    /\ Len(orders) = 2
    /\ orders[1].product_id = orders[2].product_id
    /\ \A i \in 1..2 :
          orders[i].quantity \in 1..products[orders[i].product_id].quantity
    /\ OrderedQuantity(orders, orders[1].product_id)
          > products[orders[1].product_id].quantity

(***************************************************************************)
(* C24                                                                     *)
(***************************************************************************)
\* C24: the products table is never written: after any sequence of turns,
\* submitted orders and cancelled orders included, every product has the
\* attributes and the stock it had at the start.
C24_CatalogUnchanged == products = Catalog

\* An order was created for a product and then cancelled, and the product's
\* row is what it was.
C24_Witness ==
    /\ Len(orders) > 0
    /\ orders[1].status = S_Cancelled
    /\ orders[1].quantity > 0
    /\ products[orders[1].product_id] = Catalog[orders[1].product_id]

(***************************************************************************)
(* C25                                                                     *)
(***************************************************************************)
\* What follows the selection of a listed option: the next prompt with the
\* option recorded as the catalog spells it, or the end of the attempt the
\* branch decides on; never the same prompt again.
SelectsListed(value, db) ==
    /\ response' # "invalid_option"
    /\ CASE pc = "color" ->
              IF db = "ok"
              THEN pc' = "size" /\ draft' = [draft EXCEPT !.color = value]
              ELSE EndsCancelled({"no_sizes"})
         [] pc = "size" ->
              IF db = "ok"
              THEN pc' = "style" /\ draft' = [draft EXCEPT !.size = value]
              ELSE EndsCancelled({"no_styles"})
         [] pc = "style" ->
              /\ pc' \in {"quantity", "top", "crashed"}
              /\ (pc' = "quantity" /\ db = "ok") =>
                     /\ draft'.result.category = draft.category
                     /\ Lower(draft'.result.style) = Lower(value)

\* C25: at an attribute prompt with two options or more, a line that, once
\* trimmed, equals a listed option letter case aside selects that option as
\* the catalog spells it, and every other line, the affirmative and the
\* negative synonyms among them, is answered "Invalid ..." and leaves the
\* dialogue at the same prompt with nothing recorded.
C25_ListedOptionOnly ==
    (pc \in AttributePrompts /\ Len(options) >= 2) =>
       \A line \in InputLines, db \in DbOutcomes, db2 \in AttributeSecondCall :
          \A listed \in {{ k \in 1..Len(options) :
                             Lower(options[k]) = Lower(Strip(line)) }} :
             ~ENABLED ( /\ Attribute(line, db, db2)
                        /\ ~IF listed = {}
                            THEN /\ response' = "invalid_option"
                                 /\ UNCHANGED <<pc, flow, options, draft,
                                                orders, calls>>
                            ELSE \E k \in listed :
                                    SelectsListed(options[k], db) )

\* A colour prompt with two options, where "ok", "cancel" and a negative
\* synonym are answered "Invalid color" and "BLUE" selects Blue.
C25_Witness ==
    /\ pc = "color"
    /\ Len(options) = 2
    /\ response = "invalid_option"
    /\ \A line \in {<<" ","O","K"," ">>, <<"c","a","n","c","e","l">>,
                    <<"N","o","p","e">>} :
          /\ ~ENABLED (Attribute(line, "ok", "ok") /\ pc' # pc)
          /\ ENABLED (Attribute(line, "ok", "ok") /\ pc' = pc)
    /\ ENABLED ( /\ Attribute(<<"B","L","U","E">>, "ok", "ok")
                 /\ pc' = "size"
                 /\ draft'.color = <<"B","l","u","e">> )

(***************************************************************************)
(* C26                                                                     *)
(***************************************************************************)
\* The prompts of the checkout, in the order chat() asks them.
CheckoutOrder ==
    <<"quantity", "price", "name", "address", "email", "phone", "payment",
      "card">>

\* The place of a checkout prompt in that order, 0 for any other position.
CheckoutPlace(p) ==
    IF \E k \in 1..Len(CheckoutOrder) : CheckoutOrder[k] = p
    THEN CHOOSE k \in 1..Len(CheckoutOrder) : CheckoutOrder[k] = p
    ELSE 0

\* What the attempt has gathered by the time it stands at a checkout prompt:
\* past the quantity prompt a product in stock and a quantity the prompt
\* let through, past the e-mail prompt a matching e-mail, past the phone
\* prompt a valid phone; nothing of a later prompt is gathered yet, and
\* place_order has not been called.
Gathered ==
    LET at == CheckoutPlace(pc)
    IN  at > 0 =>
           /\ calls = 0
           /\ at >= 2 => /\ Has(draft.result, "quantity")
                         /\ draft.result.quantity > 0
                         /\ ~ExceedsStock(draft.quantity, draft.result)
           /\ IF at >= 6 THEN EmailMatches(draft.email) ELSE draft.email = << >>
           /\ IF at >= 7 THEN PhoneValid(draft.phone) ELSE draft.phone = << >>

\* C26: a call of place_order is made at the payment prompt on "cash" or at
\* the card prompt, which only "visa" or "mastercard" at the payment prompt
\* leads to; the payment prompt is entered only from the phone prompt on a
\* valid phone, that one only from the e-mail prompt on a matching e-mail,
\* that one through the address and name prompts only from the price prompt
\* on an affirmative synonym, and that one only from the quantity prompt on
\* a quantity the prompt lets through for a product resolved with
\* quantity > 0; the product and what is gathered stay as they are up to
\* the call, and the attempt makes one call at most.
C26_GatesBeforePlaceOrder ==
    [][/\ Gathered /\ Gathered'
       /\ calls' <= 1
       /\ (calls' # calls /\ calls' # 0) =>
             /\ calls = 0
             /\ \/ pc = "card"
                \/ /\ pc = "payment"
                   /\ \E line \in InputLines, db \in DbOutcomes :
                         /\ Lower(Strip(line)) = W_cash
                         /\ Payment(line, db)
       /\ \A k \in 2..Len(CheckoutOrder) :
             (pc' = CheckoutOrder[k] /\ pc # pc') =>
                /\ pc = CheckoutOrder[k - 1]
                /\ draft'.result = draft.result
                /\ k > 2 => draft'.quantity = draft.quantity
                /\ k > 6 => draft'.email = draft.email
                /\ k > 7 => draft'.phone = draft.phone
       /\ (pc = "price" /\ pc' = "name") =>
             \E line \in InputLines :
                Lower(Strip(line)) \in SYNONYMS_YES /\ Price(line)
       /\ (pc = "payment" /\ pc' = "card") =>
             \E line \in InputLines, db \in DbOutcomes :
                /\ Lower(Strip(line)) \in PaymentMethods \ {W_cash}
                /\ Payment(line, db)]_vars

\* An order has been placed by card in the inquire_product branch: the one
\* call of the attempt, its row holding what the prompts gathered.
C26_Witness ==
    /\ pc = "top"
    /\ response = "order_placed"
    /\ calls = 1
    /\ Len(orders) = 1
    /\ orders[1].quantity > 0
    /\ EmailMatches(orders[1].email)
    /\ PhoneValid(orders[1].phone)
    /\ orders[1].payment_info \notin PaymentMethods

(***************************************************************************)
(* C27                                                                     *)
(***************************************************************************)
\* C27: when the style is chosen and search_product_by_attributes returns a
\* product, the product is a row of storage with quantity > 0, of the
\* requested category and, letter case aside, of the requested style; its
\* colour or its size is another than the requested one only when storage
\* holds no product with the four requested attributes.
C27_ReturnedProduct ==
    [][\A line \in StyleLines :
          ( /\ pc = "style"
            /\ Chosen(line).kind = "option"
            /\ Attribute(line, "ok", "ok")
            /\ Has(draft'.result, "id") )
          => LET product == draft'.result
                 style == Chosen(line).value
             IN  /\ \E i \in 1..Len(products) : products[i] = product
                 /\ product.quantity > 0
                 /\ product.category = draft.category
                 /\ Lower(product.style) = Lower(style)
                 /\ Mismatch(product) # 0 => ~ExactMatchExists(style)]_vars

\* The style is asked with, in storage and in this order, a sold-out polo
\* tee and a polo tee in stock, each with one of colour and size that is not
\* the requested one, and no product with the four requested attributes;
\* accepting polo goes on with the second product.
C27_Witness ==
    /\ pc = "style"
    /\ Len(products) >= 2
    /\ ~ExactMatchExists(<<"P","o","l","o">>)
    /\ \A i \in 1..2 : /\ products[i].category = draft.category
                       /\ products[i].style = <<"P","o","l","o">>
                       /\ Mismatch(products[i]) = 1
    /\ products[1].quantity = 0
    /\ products[2].quantity > 0
    /\ \E line \in StyleLines :
          ENABLED ( /\ Attribute(line, "ok", "ok")
                    /\ Chosen(line).kind = "option"
                    /\ pc' = "quantity"
                    /\ draft'.result = products[2] )

(***************************************************************************)
(* C28                                                                     *)
(***************************************************************************)
\* The line is answered at the prompt chat() stands at, storage meeting db
\* and db2, and the dialogue stands at another prompt afterwards.
LeavesPrompt(line, db, db2) ==
    /\ \/ Category(line, db)
       \/ Attribute(line, db, db2)
       \/ Buy(line)
       \/ Quantity(line)
       \/ Price(line)
       \/ Name(line)
       \/ Address(line)
       \/ Email(line)
       \/ Phone(line)
       \/ Payment(line, db)
       \/ Card(line, db)
    /\ pc' \in Prompts \ {pc}

\* C28: at every prompt of the place_order and inquire_product branches,
\* whatever storage answers, some line that is not the exit sentinel makes
\* the dialogue leave the prompt for another one or for "You: ".
C28_NoPromptIsATrap ==
    (flow \in {"place", "inquire"} /\ pc \in Prompts \ {"top"}) =>
       \A db \in DbOutcomes, db2 \in DbOutcomes :
          \E line \in InputLines : ENABLED LeavesPrompt(line, db, db2)

=============================================================================
